---- MODULE Spec2Model ----
(***************************************************************************)
(* Model of the uplifter analysis engine (aghamari/uplifter):              *)
(*   - the kernel-name signature normaliser (cycle.go),                    *)
(*   - the anchor-based cycle detector with sub-cycle refinement           *)
(*     (the detector file holding findAllCyclePatterns),                   *)
(*   - the per-position statistics aggregator (output.go),                 *)
(*   - the kernel-sequence comparator, align and match mode (compare.go).  *)
(*                                                                         *)
(* Conventions.  A kernel name is a sequence of one-character strings, so  *)
(* that the byte-level string operations of the Go code (strings.Index,    *)
(* slicing, TrimRight, FNV-1a hashing) are computed, not assumed.  Event   *)
(* indices are 0-based as in the Go code; the event at Go index i is       *)
(* events[i+1].  Durations are whole microseconds; averages are exact      *)
(* fractions [num, den] in lowest terms.                                   *)
(***************************************************************************)
EXTENDS Integers, Sequences, FiniteSets, TLC

VARIABLES
    events,           \* []KernelEvent handed to the detector and the aggregator
    pc,               \* position of the analysis pipeline
    run,              \* which of the two detection runs over the same events is active
    candidates,       \* findAllCyclePatterns: anchor candidates not yet visited by the loop
    signatureGroups,  \* findAllCyclePatterns: cycle signature -> kept CyclePattern
    patterns,         \* run -> set of CyclePattern returned by findAllCyclePatterns
    detected,         \* run -> result of DetectCycleBySignature (descriptor or error)
    cycleInfo,        \* descriptor handed to ExtractCycle
    result,           \* CycleResult built by ExtractCycle
    eager,            \* comparator: baseline []KernelStats
    compiled,         \* comparator: new []KernelStats
    CompareMode,      \* comparator: "align" or "match"
    comparison,       \* comparator: the CompareResult returned
    cpc,              \* position of the comparison pipeline
    csvFile,          \* the records CycleResult.WriteCSV wrote
    kernelsRead,      \* what readKernelsFromCSV returned for csvFile
    plist,            \* the pattern slice handed to classifyPatterns
    totalEvents,      \* its totalEvents argument, 0 while there is no call
    phases,           \* the pair classifyPatterns returned
    sheet,            \* the rows writeComparisonToSheet wrote for comparison
    traceElems,       \* the elements of the traceEvents array, in arrival order
    tpc,              \* position of parseTraceEventsArray
    tpos,             \* json.Decoder: 0-based index of the element at the read offset
    decErr,           \* json.Decoder: the sticky error of a failed read
    kernelEvents,     \* parseTraceEventsArray: the events appended so far
    baselineCycles,   \* smartMatchCycles: []cycleInfo loaded from the baseline files
    newCycles,        \* smartMatchCycles: []cycleInfo loaded from the new files
    spc,              \* position of smartMatchCycles
    smart             \* smartMatchCycles: the matches, as chosen and as sorted

vars == <<events, pc, run, candidates, signatureGroups, patterns, detected,
          cycleInfo, result, eager, compiled, CompareMode, comparison, cpc,
          csvFile, kernelsRead, plist, totalEvents, phases, sheet,
          traceElems, tpc, tpos, decErr, kernelEvents,
          baselineCycles, newCycles, spc, smart>>

detVars == <<events, pc, run, candidates, signatureGroups, patterns, detected,
             cycleInfo, result>>
cmpVars == <<eager, compiled, CompareMode, comparison, cpc>>
csvVars == <<csvFile, kernelsRead>>
clsVars == <<plist, totalEvents, phases>>

xlsVars == <<sheet>>

Nil == [nil |-> TRUE]

trVars == <<traceElems, tpc, tpos, decErr, kernelEvents>>

smVars == <<baselineCycles, newCycles, spc, smart>>

\* no batch comparison is running
IdleSmart ==
    /\ baselineCycles = <<>>
    /\ newCycles = <<>>
    /\ spc = "idle"
    /\ smart = Nil

\* no trace is being read
IdleTrace ==
    /\ traceElems = <<>>
    /\ tpc = "idle"
    /\ tpos = 0
    /\ decErr = FALSE
    /\ kernelEvents = <<>>


(***************************************************************************)
(* Generic helpers.                                                        *)
(***************************************************************************)
abs(x) == IF x < 0 THEN -x ELSE x
max(a, b) == IF a > b THEN a ELSE b
min(a, b) == IF a < b THEN a ELSE b

\* s[lo:hi] of Go (0-based, hi exclusive)
Slice(s, lo, hi) == [i \in 1..(hi - lo) |-> s[lo + i]]

RECURSIVE Gcd(_, _)
Gcd(a, b) == IF b = 0 THEN a ELSE Gcd(b, a % b)

\* exact fraction n/d (d > 0) in lowest terms
Frac(n, d) == LET g == Gcd(n, d) IN [num |-> n \div g, den |-> d \div g]
FracAdd(p, q) == Frac((p.num * q.den) + (q.num * p.den), p.den * q.den)
FracLeq(p, q) == p.num * q.den <= q.num * p.den

(***************************************************************************)
(* Characters and byte values.                                             *)
(***************************************************************************)
Lower == <<"a","b","c","d","e","f","g","h","i","j","k","l","m",
           "n","o","p","q","r","s","t","u","v","w","x","y","z">>
Upper == <<"A","B","C","D","E","F","G","H","I","J","K","L","M",
           "N","O","P","Q","R","S","T","U","V","W","X","Y","Z">>
Digits == <<"0","1","2","3","4","5","6","7","8","9">>

IsDigit(c) == \E i \in 1..10 : Digits[i] = c

\* the byte of an ASCII character
Ord(c) ==
    IF \E i \in 1..26 : Lower[i] = c THEN 96 + (CHOOSE i \in 1..26 : Lower[i] = c)
    ELSE IF \E i \in 1..26 : Upper[i] = c THEN 64 + (CHOOSE i \in 1..26 : Upper[i] = c)
    ELSE IF IsDigit(c) THEN 47 + (CHOOSE i \in 1..10 : Digits[i] = c)
    ELSE IF c = "_" THEN 95
    ELSE IF c = "<" THEN 60
    ELSE IF c = ">" THEN 62
    ELSE IF c = "," THEN 44
    ELSE IF c = "." THEN 46
    ELSE IF c = "|" THEN 124
    ELSE 32

(***************************************************************************)
(* hashString: 64-bit FNV-1a.  A 64-bit word is a sequence of 8 bytes,     *)
(* least significant first, so that every product stays far below 2^31.    *)
(***************************************************************************)
\* 0xcbf29ce484222325, least significant byte first
FnvOffset64 == <<37, 35, 34, 132, 228, 156, 242, 203>>

RECURSIVE XorBits(_, _, _)
XorBits(a, b, n) ==
    IF n = 0 THEN 0
    ELSE (((a % 2) + (b % 2)) % 2) + 2 * XorBits(a \div 2, b \div 2, n - 1)

\* h * 0x100000001b3 mod 2^64; the prime is 2^40 + 0x1b3, and 0x1b3 = 435
RECURSIVE FnvMulFrom(_, _, _)
FnvMulFrom(h, i, carry) ==
    IF i > 8 THEN <<>>
    ELSE LET t == (h[i] * 435) + (IF i > 5 THEN h[i - 5] ELSE 0) + carry
         IN  <<t % 256>> \o FnvMulFrom(h, i + 1, t \div 256)

FnvStep(h, byte) ==
    FnvMulFrom([h EXCEPT ![1] = XorBits(h[1], byte, 8)], 1, 0)

RECURSIVE FnvFold(_, _, _)
FnvFold(h, s, i) ==
    IF i > Len(s) THEN h ELSE FnvFold(FnvStep(h, Ord(s[i])), s, i + 1)

hashString(s) == FnvFold(FnvOffset64, s, 1)

\* h % m of a 64-bit word (Horner, most significant byte first)
RECURSIVE WordMod(_, _, _, _)
WordMod(h, i, m, acc) ==
    IF i = 0 THEN acc ELSE WordMod(h, i - 1, m, ((acc * 256) + h[i]) % m)

\* fmt's %d of a non-negative integer
RECURSIVE Decimal(_)
Decimal(n) ==
    IF n < 10 THEN <<Digits[n + 1]>>
    ELSE Decimal(n \div 10) \o <<Digits[(n % 10) + 1]>>

(***************************************************************************)
(* getKernelSignature.                                                     *)
(***************************************************************************)
HasPrefixAt(s, pat, i) ==
    /\ i + Len(pat) <= Len(s)
    /\ \A k \in 1..Len(pat) : s[i + k] = pat[k]

\* strings.Index: 0-based index of the first occurrence of pat in s, or -1
Index(s, pat) ==
    LET hits == {i \in 0..Len(s) : HasPrefixAt(s, pat, i)}
    IN  IF hits = {} THEN -1 ELSE CHOOSE i \in hits : \A j \in hits : i <= j

configPatterns ==
    << <<"_","G","R","O","U","P","_","K","_">>,
       <<"_","G","R","O","U","P","_","N","_">>,
       <<"_","B","L","O","C","K","_","S","I","Z","E","_">>,
       <<"_","G","R","I","D","_">>,
       <<"_","M","T">>, <<"_","M","I">>, <<"_","S","N","_">>,
       <<"_","A","F","C">>, <<"_","L","D","S","B">>,
       <<"_","L","P","A">>, <<"_","L","P","B">>,
       <<"_","U","s","e","r","A","r","g","s","_">>,
       <<"_","s","h","o","r","t","n","a","m","e">> >>

\* TruncateTemplate that keeps the template arguments
TruncateTemplateNone(sig) == sig

\* "if idx := strings.Index(sig, "<"); idx > 0 { sig = sig[:idx] }"
TruncateTemplate(sig) ==
    LET idx == Index(sig, <<"<">>) IN IF idx > 0 THEN Slice(sig, 0, idx) ELSE sig

\* the loop over configPatterns: every pattern in turn cuts what is left
RECURSIVE StripConfig(_, _)
StripConfig(sig, k) ==
    IF k > Len(configPatterns) THEN sig
    ELSE LET idx == Index(sig, configPatterns[k])
         IN  StripConfig(IF idx > 0 THEN Slice(sig, 0, idx) ELSE sig, k + 1)

\* "for len(sig) > 2 && digit(sig[len-1]) && sig[len-2] == '_' { sig = sig[:len-2] }"
RECURSIVE StripTrailingNumbers(_)
StripTrailingNumbers(sig) ==
    IF Len(sig) > 2 /\ IsDigit(sig[Len(sig)]) /\ sig[Len(sig) - 1] = "_"
    THEN StripTrailingNumbers(Slice(sig, 0, Len(sig) - 2))
    ELSE sig

\* strings.TrimRight(sig, "_")
RECURSIVE TrimRightUnderscore(_)
TrimRightUnderscore(sig) ==
    IF Len(sig) > 0 /\ sig[Len(sig)] = "_"
    THEN TrimRightUnderscore(Slice(sig, 0, Len(sig) - 1))
    ELSE sig

\* fmt.Sprintf("other_%d", hashString(name)%1000)
FallbackSignature(name) ==
    <<"o","t","h","e","r","_">> \o Decimal(WordMod(hashString(name), 8, 1000, 0))

SignatureTail(name, sig) ==
    LET t == TrimRightUnderscore(StripTrailingNumbers(sig))
    IN  IF Len(t) < 3 THEN FallbackSignature(name) ELSE t

\* cycle.go: the normaliser used by the comparator
getKernelSignature(name) ==
    SignatureTail(name, StripConfig(TruncateTemplate(name), 1))

\* the detector file's normaliser: the same steps without the configuration cut
getKernelSignatureDetector(name) ==
    SignatureTail(name, TruncateTemplate(name))

(***************************************************************************)
(* Kernel names of the traces and kernel lists the model analyses.         *)
(***************************************************************************)
\* the names of the spec's S1 stream, [A,B,C] x k
NameA == <<"A">>
NameB == <<"B">>
NameC == <<"C">>
NameD == <<"D">>
NameE == <<"E">>
\* the names of the spec's S5 lists, [X,Y,Z] and [XY_fused, Z], and the same
\* scenario with names long enough for the normaliser to keep them
NameX == <<"X">>
NameY == <<"Y">>
NameZ == <<"Z">>
NameFused == <<"X","Y","_","f","u","s","e","d">>
LongX == <<"x","o","p">>
LongY == <<"y","o","p">>
LongZ == <<"z","o","p">>
LongFused == <<"x","o","p","_","y","o","p","_","f","u","s","e","d">>
\* the names of the spec's S3 lists, k<float,128> and k<double,64>, and the
\* same template arguments after a longer kernel name
TemplateFloat == <<"<","f","l","o","a","t",",","1","2","8",">">>
TemplateDouble == <<"<","d","o","u","b","l","e",",","6","4",">">>
KFloat == <<"k">> \o TemplateFloat
KDouble == <<"k">> \o TemplateDouble
GemmFloat == <<"g","e","m","m">> \o TemplateFloat
GemmDouble == <<"g","e","m","m">> \o TemplateDouble
\* a numbered kernel name that ends in an underscore
AnchorTrailing == <<"s","s","s","_","1","_">>
\* names with numbered suffixes and with configuration suffixes
NumOne == <<"k","k","k","_","0">>
NumTwo == <<"k","k","k","_","1","2">>
NumNested == <<"k","k","k","_","3","_","4","5">>
TileA == <<"k","k","k","_","M","T","8">>
TileB == <<"k","k","k","_","M","T","1","6">>
EvenA == <<"k","k","k","_","E","V","E","N","_","K","_","a">>
EvenB == <<"k","k","k","_","E","V","E","N","_","K","_","b">>
OverlapA == <<"k","k","k","_","S","N","_","M","T","8">>
OverlapB == <<"k","k","k","_","S","N","_","8">>
\* kaa, kbb, ..: pairwise distinct names with pairwise distinct signatures
Distinct(i) == <<"k", Lower[i], Lower[i]>>
\* an anchor kernel and its numbered variants: one signature, three names
Anchor == <<"s","s","s">>
Anchor0 == <<"s","s","s","_","0">>
Anchor1 == <<"s","s","s","_","1">>
\* kernels too frequent to be anchors
FillX == <<"x","x","x">>
FillY == <<"y","y","y">>
\* the layer kernels of the drifting window
Layer(i) == <<"f", Lower[i], Lower[i]>>

DistinctLen == 10

DetectorNames ==
    {NameA, NameB, NameC, NameD, Anchor, Anchor0, Anchor1, FillX, FillY}
        \cup {Distinct(i) : i \in 1..DistinctLen} \cup {Layer(i) : i \in 1..7}

\* hashString and the detector's getKernelSignature of every name in use,
\* computed once ("hashes[i] = hashString(e.Name)" is a lookup by name)
HashTable == [nm \in DetectorNames |-> hashString(nm)]
SigTable == [nm \in DetectorNames |-> getKernelSignatureDetector(nm)]

(***************************************************************************)
(* Cycle detector.                                                         *)
(***************************************************************************)
RECURSIVE SortedSeq(_)
SortedSeq(S) ==
    IF S = {} THEN <<>>
    ELSE LET m == CHOOSE x \in S : \A y \in S : x <= y
         IN  <<m>> \o SortedSeq(S \ {m})

\* package variables of the detector; no command-line flag ever assigns them
NormalizeNames == FALSE
PhaseMode == "auto"

CycleInfo(start, len, num, indices) ==
    [StartIndex |-> start, CycleLength |-> len, NumCycles |-> num,
     CycleIndices |-> indices]

\* the hash of every event (NormalizeNames is false)
EventHashes(evs) == [i \in 1..Len(evs) |-> HashTable[evs[i].Name]]

\* ascending 0-based positions of the events named name
findKernelPositions(evs, name) ==
    SortedSeq({i \in 0..(Len(evs) - 1) : evs[i + 1].Name = name})

\* verifyCycle's loop "for i := 1; i < expectedCycles; i++"
RECURSIVE VerifyLoop(_, _, _, _, _, _)
VerifyLoop(hashes, startIdx, cycleLen, expectedCycles, i, cycleIndices) ==
    IF i >= expectedCycles THEN cycleIndices
    ELSE LET pos == startIdx + (i * cycleLen)
         IN  IF pos + cycleLen > Len(hashes) THEN cycleIndices   \* break
             ELSE LET matchCount ==
                          Cardinality({j \in 0..(cycleLen - 1) :
                              hashes[startIdx + j + 1] = hashes[pos + j + 1]})
                      \* float64(matchCount)/float64(cycleLen) >= 0.95
                      kept == IF 20 * matchCount >= 19 * cycleLen
                              THEN Append(cycleIndices, pos)
                              ELSE cycleIndices
                  IN  VerifyLoop(hashes, startIdx, cycleLen, expectedCycles,
                                 i + 1, kept)

\* verifyCycle with the loop bound one short: "i < expectedCycles-1"
verifyCycleShort(evs, startIdx, cycleLen, expectedCycles) ==
    LET cycleIndices ==
            VerifyLoop(EventHashes(evs), startIdx, cycleLen, expectedCycles - 1,
                       1, <<startIdx>>)
        matches_ == Len(cycleIndices)
    IN  IF matches_ >= 2
        THEN CycleInfo(startIdx, cycleLen, matches_, cycleIndices)
        ELSE Nil

verifyCycle(evs, startIdx, cycleLen, expectedCycles) ==
    LET cycleIndices ==
            VerifyLoop(EventHashes(evs), startIdx, cycleLen, expectedCycles,
                       1, <<startIdx>>)
        matches_ == Len(cycleIndices)
    IN  IF matches_ >= 2
        THEN CycleInfo(startIdx, cycleLen, matches_, cycleIndices)
        ELSE Nil

\* "abs(diff-cycleLen) > max(1, cycleLen/20)" never holds for i >= 2
IsConsistent(positions, cycleLen, tolDiv) ==
    \A i \in 3..Len(positions) :
        abs((positions[i] - positions[i - 1]) - cycleLen)
            <= max(1, cycleLen \div tolDiv)

\* verifySubCycleBySignature's loop "for i := startIdx; i+cycleLen < n; i += cycleLen"
RECURSIVE SubVerifyLoop(_, _, _, _)
SubVerifyLoop(signatures, i, cycleLen, matches_) ==
    LET n == Len(signatures)
    IN  IF ~(i + cycleLen < n) THEN matches_
        ELSE LET matchCount ==
                     Cardinality({j \in 0..(cycleLen - 1) :
                         /\ i + j < n
                         /\ i + j + cycleLen < n
                         /\ signatures[i + j + 1] = signatures[i + j + cycleLen + 1]})
             IN  SubVerifyLoop(signatures, i + cycleLen, cycleLen,
                     \* float64(matchCount)/float64(cycleLen) >= 0.80
                     IF 5 * matchCount >= 4 * cycleLen THEN matches_ + 1
                     ELSE matches_)

verifySubCycleBySignature(signatures, startIdx, cycleLen) ==
    SubVerifyLoop(signatures, startIdx, cycleLen, 0) >= 3

\* the signatures of one repetition's events
WindowSignatures(cycleEvents) ==
    [i \in 1..Len(cycleEvents) |-> SigTable[cycleEvents[i].Name]]

\* sigCounts[sig]: ascending positions of sig within the window
SigPositions(signatures, sig) ==
    SortedSeq({i \in 0..(Len(signatures) - 1) : signatures[i + 1] = sig})

\* findSubCycle's loop "for sig, positions := range sigCounts", the map being
\* visited in the order `order`; best = <<bestSubCycleLen, bestPositions>>
RECURSIVE SubCycleLoop(_, _, _, _)
SubCycleLoop(signatures, order, k, best) ==
    IF k > Len(order) THEN best
    ELSE LET n == Len(signatures)
             positions == SigPositions(signatures, order[k])
             subCycleLen == positions[2] - positions[1]
             next ==
                 IF Len(positions) < 3 THEN best
                 ELSE IF subCycleLen < 5 \/ subCycleLen >= n \div 2 THEN best
                 ELSE IF /\ IsConsistent(positions, subCycleLen, 10)
                         /\ (best[1] = 0 \/ subCycleLen < best[1])
                         /\ verifySubCycleBySignature(signatures, positions[1],
                                                      subCycleLen)
                      THEN <<subCycleLen, positions>>
                      ELSE best
         IN  SubCycleLoop(signatures, order, k + 1, next)

findSubCycle(cycleEvents, allEvents, outerCycle, order) ==
    LET best == SubCycleLoop(WindowSignatures(cycleEvents), order, 1, <<0, <<>> >>)
        bestSubCycleLen == best[1]
        bestPositions == best[2]
        np == Len(bestPositions)
        no == Len(outerCycle.CycleIndices)
    IN  IF bestSubCycleLen > 0
        THEN CycleInfo(outerCycle.StartIndex + bestPositions[1],
                       bestSubCycleLen,
                       np * outerCycle.NumCycles,
                       [q \in 1..(no * np) |->
                           outerCycle.CycleIndices[((q - 1) \div np) + 1]
                             + bestPositions[((q - 1) % np) + 1]])
        ELSE Nil

RECURSIVE Perms(_)
Perms(S) ==
    IF S = {} THEN {<<>>}
    ELSE UNION {{<<x>> \o p : p \in Perms(S \ {x})} : x \in S}

\* every order in which "range sigCounts" can visit the window's signatures;
\* a signature with fewer than 3 positions only reaches the first "continue",
\* so the orders are taken over the others
MapOrders(cycleEvents) ==
    LET signatures == WindowSignatures(cycleEvents)
    IN  Perms({sig \in {signatures[i] : i \in 1..Len(signatures)} :
                  Len(SigPositions(signatures, sig)) >= 3})

\* "if info.CycleLength > 20 { ... findSubCycle ... }": the descriptors the
\* refinement step can leave, one per map order
Refine(evs, info) ==
    IF info.CycleLength > 20
    THEN LET cycleEvents ==
                 Slice(evs, info.StartIndex, info.StartIndex + info.CycleLength)
         IN  {LET subCycle == findSubCycle(cycleEvents, evs, info, order)
              IN  IF subCycle # Nil THEN subCycle ELSE info :
                  order \in MapOrders(cycleEvents)}
    ELSE {info}

RECURSIVE Join(_, _)
Join(parts, sep) ==
    IF Len(parts) = 0 THEN <<>>
    ELSE IF Len(parts) = 1 THEN parts[1]
    ELSE parts[1] \o sep \o Join(Tail(parts), sep)

getCycleSignature(evs, cycle) ==
    IF cycle = Nil \/ cycle.StartIndex + cycle.CycleLength > Len(evs) THEN <<>>
    ELSE Join([i \in 1..min(cycle.CycleLength, 10) |->
                  SigTable[evs[cycle.StartIndex + i].Name]], <<"|">>)

\* "counts[e.Name]++"
Counts(evs, name) == Cardinality({i \in 1..Len(evs) : evs[i].Name = name})

\* the anchor candidates: 5 <= count <= len(events)/5
AnchorCandidates(evs) ==
    {c \in {[name |-> evs[i].Name, count |-> Counts(evs, evs[i].Name)] :
                i \in 1..Len(evs)} :
        c.count >= 5 /\ c.count <= Len(evs) \div 5}

\* the CyclePattern built for a descriptor; CenterPos2 is twice CenterPos
\* (CenterPos = float64(startPos+endPos)/2.0)
CyclePattern(evs, info, anchor) ==
    LET startPos == info.StartIndex
        endPos == info.CycleIndices[Len(info.CycleIndices)] + info.CycleLength
    IN  [Info |-> info, Signature |-> getCycleSignature(evs, info),
         StartPos |-> startPos, EndPos |-> endPos,
         CenterPos2 |-> startPos + endPos, Anchor |-> anchor]

\* one iteration of findAllCyclePatterns' loop over the candidates up to the
\* verified descriptor: Nil where the body reaches a "continue"
CandidateCycle(evs, name) ==
    LET positions == findKernelPositions(evs, name)
        cycleLen == positions[2] - positions[1]
    IN  IF Len(positions) < 5 THEN Nil
        ELSE IF cycleLen < 10 THEN Nil
        ELSE IF ~IsConsistent(positions, cycleLen, 20) THEN Nil
        ELSE LET info == verifyCycle(evs, positions[1], cycleLen, Len(positions))
             IN  IF info = Nil \/ info.NumCycles < 5 THEN Nil ELSE info

\* "if existing, ok := signatureGroups[sig]; ok { if more repetitions, replace }
\*  else insert"
GroupInsert(groups, p) ==
    IF \E q \in groups : q.Signature = p.Signature
    THEN LET existing == CHOOSE q \in groups : q.Signature = p.Signature
         IN  IF p.Info.NumCycles > existing.Info.NumCycles
             THEN (groups \ {existing}) \cup {p}
             ELSE groups
    ELSE groups \cup {p}

\* findOuterCycle's loop body: the verified descriptor of one candidate, or Nil
ValidCycle(evs, name) ==
    LET positions == findKernelPositions(evs, name)
        cycleLen == positions[2] - positions[1]
        \* consistentCount starts at 1 and counts every i in 2..len-1
        consistentCount == Len(positions) - 1
    IN  IF Len(positions) < 5 THEN Nil
        ELSE IF cycleLen < 10 THEN Nil
        ELSE IF IsConsistent(positions, cycleLen, 20) /\ consistentCount >= 5
             THEN LET info == verifyCycle(evs, positions[1], cycleLen, Len(positions))
                  IN  IF info # Nil /\ info.NumCycles >= 5 THEN info ELSE Nil
             ELSE Nil

\* findOuterCycle (PhaseMode "auto"): validCycles[0] after sort.Slice by
\* NumCycles descending.  The candidates come from a map and sort.Slice is not
\* stable, so any valid cycle with the most repetitions can be first.
\* The empty set stands for the nil result.
findOuterCycle(evs) ==
    LET validCycles ==
            {ValidCycle(evs, c.name) : c \in AnchorCandidates(evs)} \ {Nil}
    IN  {v \in validCycles : \A w \in validCycles : v.NumCycles >= w.NumCycles}

findFirstRepeat(evs) ==
    LET hashes == EventHashes(evs)
        repeats == {i \in 0..(Len(evs) - 1) :
                       \E j \in 0..(i - 1) : hashes[j + 1] = hashes[i + 1]}
    IN  IF repeats = {} THEN 0
        ELSE CHOOSE i \in repeats : \A j \in repeats : i <= j

\* tryCycleLength's inner loop "for pos := startOffset; pos+cycleLen <= n; pos += cycleLen"
RECURSIVE TryLoop(_, _, _, _, _)
TryLoop(hashes, startOffset, cycleLen, pos, cycleIndices) ==
    IF pos + cycleLen > Len(hashes) THEN cycleIndices
    ELSE IF pos > startOffset
         THEN IF \A i \in 0..(cycleLen - 1) :
                     hashes[startOffset + i + 1] = hashes[pos + i + 1]
              THEN TryLoop(hashes, startOffset, cycleLen, pos + cycleLen,
                           Append(cycleIndices, pos))
              ELSE cycleIndices                                  \* break
         ELSE TryLoop(hashes, startOffset, cycleLen, pos + cycleLen, cycleIndices)

\* tryCycleLength's outer loop over the start offsets
RECURSIVE TryOffsets(_, _, _)
TryOffsets(hashes, cycleLen, startOffset) ==
    IF ~(startOffset < cycleLen /\ startOffset < Len(hashes) \div 4) THEN Nil
    ELSE LET cycleIndices ==
                 TryLoop(hashes, startOffset, cycleLen, startOffset, <<startOffset>>)
             \* matches counts the first window only when it fits
             matches_ == IF startOffset + cycleLen > Len(hashes) THEN 0
                         ELSE Len(cycleIndices)
         IN  IF matches_ >= 2
             THEN CycleInfo(startOffset, cycleLen, matches_, cycleIndices)
             ELSE TryOffsets(hashes, cycleLen, startOffset + 1)

tryCycleLength(hashes, cycleLen) == TryOffsets(hashes, cycleLen, 0)

\* DetectCycle's loop over the cycle lengths; Nil stands for the error result
RECURSIVE DetectLoop(_, _, _)
DetectLoop(hashes, cycleLen, maxCycleLen) ==
    IF ~(cycleLen <= maxCycleLen /\ cycleLen <= Len(hashes) \div 2) THEN Nil
    ELSE LET info == tryCycleLength(hashes, cycleLen)
         IN  IF info # Nil /\ info.NumCycles >= 2 THEN info
             ELSE DetectLoop(hashes, cycleLen + 1, maxCycleLen)

\* DetectCycle that needs more than two windows' worth of events
DetectCycleStrict(evs, minCycleLen, maxCycleLen) ==
    IF Len(evs) <= minCycleLen * 2 THEN Nil
    ELSE DetectLoop(EventHashes(evs), minCycleLen, maxCycleLen)

DetectCycle(evs, minCycleLen, maxCycleLen) ==
    IF Len(evs) < minCycleLen * 2 THEN Nil
    ELSE DetectLoop(EventHashes(evs), minCycleLen, maxCycleLen)

\* DetectCycleAuto that searches from the first repeat on, with no floor of 10
DetectCycleAutoFromRepeat(evs) ==
    DetectCycle(evs, findFirstRepeat(evs), Len(evs) \div 2)

DetectCycleAuto(evs) ==
    IF Len(evs) < 20 THEN Nil
    ELSE LET firstRepeat == findFirstRepeat(evs)
         IN  IF firstRepeat = 0 THEN Nil
             ELSE DetectCycle(evs, max(10, firstRepeat - 100),
                              min(Len(evs) \div 2, firstRepeat + 1000))

\* detectCycleStandard without the DetectCycleAuto fallback
detectCycleStandardNoAuto(evs) ==
    LET outer == findOuterCycle(evs)
    IN  IF outer # {}
        THEN UNION {Refine(evs, outerCycle) : outerCycle \in outer}
        ELSE {Nil}

\* detectCycleStandard(events, 0): the descriptors it can return; Nil is the
\* error of DetectCycleAuto
detectCycleStandard(evs) ==
    LET outer == findOuterCycle(evs)
    IN  IF outer # {}
        THEN UNION {Refine(evs, outerCycle) : outerCycle \in outer}
        ELSE {DetectCycleAuto(evs)}

\* DetectCycleBySignature with PhaseMode "auto"
DetectCycleBySignature(evs) ==
    IF Len(evs) < 20 THEN {Nil} ELSE detectCycleStandard(evs)

(***************************************************************************)
(* Statistics aggregator.                                                  *)
(***************************************************************************)
RECURSIVE SumSeq(_)
SumSeq(q) == IF Len(q) = 0 THEN 0 ELSE Head(q) + SumSeq(Tail(q))

RECURSIVE FracSum(_)
FracSum(q) == IF Len(q) = 0 THEN Frac(0, 1) ELSE FracAdd(Head(q), FracSum(Tail(q)))

MinOf(q) == CHOOSE x \in {q[i] : i \in 1..Len(q)} : \A i \in 1..Len(q) : x <= q[i]
MaxOf(q) == CHOOSE x \in {q[i] : i \in 1..Len(q)} : \A i \in 1..Len(q) : x >= q[i]

\* the durations ExtractCycle appends at position i: one per cycle start whose
\* event "cycleStart+i < len(events)" exists, in the order of CycleIndices
VisitedStarts(evs, info, i) ==
    SelectSeq(info.CycleIndices, LAMBDA cycleStart : cycleStart + i < Len(evs))

PositionStats(evs, info, i) ==
    LET starts == VisitedStarts(evs, info, i)
        durations == [r \in 1..Len(starts) |-> evs[starts[r] + i + 1].Duration]
        count == Len(durations)
        total == SumSeq(durations)
    IN  [Name |-> evs[starts[1] + i + 1].Name,
         IndexInCycle |-> i,
         Count |-> count,
         TotalDur |-> total,
         MinDur |-> MinOf(durations),
         MaxDur |-> MaxOf(durations),
         AvgDur |-> Frac(total, count),
         \* StdDev squared: sum((d - avg)^2)/n when n > 1, else the zero value
         Variance |-> IF count > 1
                      THEN Frac(SumSeq([r \in 1..count |->
                                   ((durations[r] * count) - total)
                                     * ((durations[r] * count) - total)]),
                                count * count * count)
                      ELSE Frac(0, 1)]

ExtractCycle(evs, info) ==
    LET visited == SelectSeq([i \in 1..info.CycleLength |-> i - 1],
                       LAMBDA i : Len(VisitedStarts(evs, info, i)) > 0)
        Kernels == [k \in 1..Len(visited) |-> PositionStats(evs, info, visited[k])]
        \* "cycleTime += event.Duration" over one cycle start
        cycleTime(cycleStart) ==
            SumSeq([k \in 1..Len(visited) |->
                       IF cycleStart + visited[k] < Len(evs)
                       THEN evs[cycleStart + visited[k] + 1].Duration ELSE 0])
        TotalCycleTime ==
            SumSeq([r \in 1..Len(info.CycleIndices) |-> cycleTime(info.CycleIndices[r])])
    IN  [CycleLength |-> info.CycleLength,
         NumCycles |-> info.NumCycles,
         TotalCycleTime |-> TotalCycleTime,
         AvgCycleTime |-> Frac(TotalCycleTime, info.NumCycles),
         Kernels |-> Kernels]

(***************************************************************************)
(* The traces analysed: a window of kernel names repeated, optionally with *)
(* one disturbed repetition and a partial repetition at the end.           *)
(***************************************************************************)
MaxReps == 6
MaxDurScheme == 1

WinABC == <<NameA, NameB, NameC>>
WinDistinct == [i \in 1..DistinctLen |-> Distinct(i)]
\* two anchors per window, half a window apart, around frequent fillers
WinTie == <<Anchor0, FillX, FillX, FillX, FillX,
            Anchor1, FillX, FillX, FillX, FillX>>
\* the same period with both anchors late in the window
WinTieLate == <<FillX, FillX, FillX, FillX, Anchor0,
                FillX, FillX, FillX, FillX, Anchor1>>
\* a 21-kernel pass made of 5-kernel layers; the pass anchor opens the window
WinSub == <<Anchor1, FillX, FillX, FillX, FillX,
            Anchor, FillX, FillX, FillX, FillX,
            Anchor, FillX, FillX, FillX, FillX,
            Anchor, FillX, FillX, FillX, FillX,
            Anchor>>
\* a 21-kernel pass whose layers change by one kernel from layer to layer
WinDrift == <<Anchor1, Layer(1), Layer(2), Layer(3), Layer(4),
              Anchor, Layer(1), Layer(2), Layer(3), Layer(5),
              Anchor, Layer(1), Layer(2), Layer(6), Layer(5),
              Anchor, Layer(1), Layer(7), Layer(6), Layer(5),
              Anchor>>

\* the outer window of the spec's S2 stream: an inner [A,B,C,D] three times
WinS2 == <<NameA, NameB, NameC, NameD, NameA, NameB, NameC, NameD,
           NameA, NameB, NameC, NameD>>

\* the duration of the event at index i under a duration scheme
DurationOf(scheme, i) == 1 + ((i * scheme) % 7)

\* reps repetitions of win followed by its first tail kernels; repetition
\* number bad (1-based, 0 for none) runs FillY where the window has FillX
Stream(win, reps, tail, bad, scheme) ==
    [q \in 1..((reps * Len(win)) + tail) |->
        LET i == q - 1
            nm == win[(i % Len(win)) + 1]
        IN  [Name |-> IF bad > 0 /\ (i \div Len(win)) + 1 = bad /\ nm = FillX
                      THEN FillY ELSE nm,
             Duration |-> DurationOf(scheme, i)]]

Traces ==
    {Stream(WinABC, reps, 0, 0, sch) :
        reps \in 6..MaxReps, sch \in 0..MaxDurScheme}
    \cup {Stream(WinDistinct, reps, 0, 0, sch) :
        reps \in {2} \cup (5..MaxReps), sch \in 0..MaxDurScheme}
    \cup {Stream(WinTie, reps, tail, bad, sch) :
        reps \in 5..MaxReps, tail \in {0, 5}, bad \in {0, 3}, sch \in 0..MaxDurScheme}
    \cup {Stream(WinS2, 8, 0, 0, sch) : sch \in 0..MaxDurScheme}
    \cup {Stream(WinTie, 2, 0, 0, sch) : sch \in 0..MaxDurScheme}
    \cup {Stream(WinTieLate, reps, 0, 0, sch) :
        reps \in 5..MaxReps, sch \in 0..MaxDurScheme}
    \cup {Stream(win, reps, tail, 0, sch) :
        win \in {WinSub, WinDrift}, reps \in 5..MaxReps, tail \in {0, 5},
        sch \in 0..MaxDurScheme}

(***************************************************************************)
(* The analysis pipeline: findAllCyclePatterns and DetectCycleBySignature, *)
(* each run twice over the same events, then ExtractCycle.                 *)
(***************************************************************************)
NoResult == [info |-> Nil, done |-> FALSE]

InitDetect ==
    /\ events \in Traces
    /\ pc = "start"
    /\ run = 1
    /\ candidates = {}
    /\ signatureGroups = {}
    /\ patterns = [r \in 1..2 |-> {}]
    /\ detected = [r \in 1..2 |-> NoResult]
    /\ cycleInfo = Nil
    /\ result = Nil
    /\ eager = <<>>
    /\ compiled = <<>>
    /\ CompareMode = "align"
    /\ comparison = Nil
    /\ cpc = "idle"
    /\ csvFile = <<>>
    /\ kernelsRead = Nil
    /\ plist = <<>>
    /\ totalEvents = 0
    /\ phases = Nil
    /\ sheet = Nil
    /\ IdleTrace
    /\ IdleSmart

\* findAllCyclePatterns up to the sorted candidate list
StartFindAll ==
    /\ pc = "start"
    /\ candidates' = AnchorCandidates(events)
    /\ signatureGroups' = {}
    /\ pc' = "scan"
    /\ UNCHANGED <<events, run, patterns, detected, cycleInfo, result>>
    /\ UNCHANGED cmpVars
    /\ UNCHANGED csvVars
    /\ UNCHANGED clsVars /\ UNCHANGED xlsVars /\ UNCHANGED trVars /\ UNCHANGED smVars

\* one iteration of "for _, cand := range candidates": the next candidate is
\* any unvisited one with the highest count (sort.Slice over a map's keys)
ProcessCandidate ==
    /\ pc = "scan"
    /\ \E cand \in candidates :
        /\ \A other \in candidates : cand.count >= other.count
        /\ candidates' = candidates \ {cand}
        /\ LET info == CandidateCycle(events, cand.name)
           IN  IF info = Nil
               THEN signatureGroups' = signatureGroups
               ELSE \E refined \in Refine(events, info) :
                       signatureGroups' =
                           GroupInsert(signatureGroups,
                                       CyclePattern(events, refined, cand.name))
    /\ UNCHANGED <<events, pc, run, patterns, detected, cycleInfo, result>>
    /\ UNCHANGED cmpVars
    /\ UNCHANGED csvVars
    /\ UNCHANGED clsVars /\ UNCHANGED xlsVars /\ UNCHANGED trVars /\ UNCHANGED smVars

\* "for _, p := range signatureGroups { patterns = append(patterns, *p) }"
FinishFindAll ==
    /\ pc = "scan"
    /\ candidates = {}
    /\ patterns' = [patterns EXCEPT ![run] = signatureGroups]
    /\ signatureGroups' = {}
    /\ IF run = 1 THEN run' = 2 /\ pc' = "start"
                  ELSE run' = 1 /\ pc' = "detect"
    /\ UNCHANGED <<events, candidates, detected, cycleInfo, result>>
    /\ UNCHANGED cmpVars
    /\ UNCHANGED csvVars
    /\ UNCHANGED clsVars /\ UNCHANGED xlsVars /\ UNCHANGED trVars /\ UNCHANGED smVars

\* analyzeTrace step 2: DetectCycleBySignature(events)
Detect ==
    /\ pc = "detect"
    /\ \E info \in DetectCycleBySignature(events) :
          detected' = [detected EXCEPT ![run] = [info |-> info, done |-> TRUE]]
    /\ IF run = 1 THEN run' = 2 /\ pc' = "detect"
                  ELSE run' = 2 /\ pc' = "extract"
    /\ UNCHANGED <<events, candidates, signatureGroups, patterns, cycleInfo, result>>
    /\ UNCHANGED cmpVars
    /\ UNCHANGED csvVars
    /\ UNCHANGED clsVars /\ UNCHANGED xlsVars /\ UNCHANGED trVars /\ UNCHANGED smVars

\* every descriptor the detector returned in either run
Returned ==
    {p.Info : p \in patterns[1] \cup patterns[2]}
        \cup ({detected[r].info : r \in 1..2} \ {Nil})

\* outputAllPatterns / outputResults / analyzeTrace step 3:
\* ExtractCycle(events, descriptor)
Extract ==
    /\ pc = "extract"
    /\ \E info \in Returned :
        /\ cycleInfo' = info
        /\ result' = ExtractCycle(events, info)
    /\ pc' = "done"
    /\ UNCHANGED <<events, run, candidates, signatureGroups, patterns, detected>>
    /\ UNCHANGED cmpVars
    /\ UNCHANGED csvVars
    /\ UNCHANGED clsVars /\ UNCHANGED xlsVars /\ UNCHANGED trVars /\ UNCHANGED smVars

\* "no cycle patterns found": nothing to extract
NoCycleFound ==
    /\ pc = "extract"
    /\ Returned = {}
    /\ pc' = "failed"
    /\ UNCHANGED <<events, run, candidates, signatureGroups, patterns, detected,
                   cycleInfo, result>>
    /\ UNCHANGED cmpVars
    /\ UNCHANGED csvVars
    /\ UNCHANGED clsVars /\ UNCHANGED xlsVars /\ UNCHANGED trVars /\ UNCHANGED smVars

(***************************************************************************)
(* The CSV file of a cycle result.  A file is the sequence of its records, *)
(* a record the sequence of its fields.  A field is one of                 *)
(*   [text |-> s]     a literal of the code,                               *)
(*   [name |-> n]     a kernel name,                                       *)
(*   [itoa |-> n]     strconv.Itoa(n),                                     *)
(*   [fixed |-> d, of |-> x]   fmt.Sprintf("%.<d>f", x): x to d decimals.  *)
(* The standard deviation is the square root of Variance and is carried as *)
(* [sqrt |-> Variance]; the percentage as [pct |-> <<part, whole>>].       *)
(***************************************************************************)
Text(s) == [text |-> s]
Itoa(n) == [itoa |-> n]
Sprintf(decimals, x) == [fixed |-> decimals, of |-> x]

CsvHeaders ==
    <<Text("index"), Text("kernel_name"), Text("avg_duration_us"),
      Text("min_duration_us"), Text("max_duration_us"), Text("stddev_us"),
      Text("count"), Text("pct_of_cycle")>>

\* the records CycleResult.WriteCSV writes, in order
WriteCSV(r) ==
    LET metaRows ==
            << <<Text("# Cycle Statistics")>>,
               <<Text("# Iterations"), Itoa(r.NumCycles)>>,
               <<Text("# Kernels per cycle"), Itoa(r.CycleLength)>>,
               <<Text("# Avg cycle time (us)"), Sprintf(3, r.AvgCycleTime)>>,
               <<Text("# Total time (us)"), Sprintf(3, Frac(r.TotalCycleTime, 1))>>,
               <<>> >>
        row(k) ==
            <<Itoa(k.IndexInCycle), [name |-> k.Name], Sprintf(3, k.AvgDur),
              Sprintf(3, Frac(k.MinDur, 1)), Sprintf(3, Frac(k.MaxDur, 1)),
              Sprintf(3, [sqrt |-> k.Variance]), Itoa(k.Count),
              Sprintf(4, [pct |-> <<k.AvgDur, r.AvgCycleTime>>])>>
    IN  metaRows \o <<CsvHeaders>>
            \o [i \in 1..Len(r.Kernels) |-> row(r.Kernels[i])]

\* fmt.Errorf(msg): an error value, different from nil
Errorf(msg) == [error |-> msg]

\* csv.Reader.Read over the whole file: an empty line is no record
CsvRecords(file) == SelectSeq(file, LAMBDA record : Len(record) > 0)

\* "for i, col := range header { switch col { case label: idx = i } }":
\* the 0-based index of the last column with that label, -1 for none
ColumnIndex(header, label) ==
    LET hits == {i \in 1..Len(header) : header[i] = Text(label)}
    IN  IF hits = {} THEN -1
        ELSE (CHOOSE i \in hits : \A k \in hits : k <= i) - 1

\* strconv.ParseFloat(field, 64): the digits of an Itoa or a Sprintf parse,
\* to the value that was written with the decimals that were written
ParsesAsFloat(field) == DOMAIN field \in {{"itoa"}, {"fixed", "of"}}
ParseFloat(field) ==
    IF DOMAIN field = {"itoa"} THEN Sprintf(0, Frac(field.itoa, 1)) ELSE field

\* record[nameIdx] as a string
FieldString(field) == IF DOMAIN field = {"name"} THEN field.name ELSE field

\* "for { record, err := reader.Read() ... }" from record k on; the reader
\* was built with csv.NewReader, so every record must have as many fields
\* as the first one
RECURSIVE ReadRows(_, _, _, _)
ReadRows(records, k, idx, kernels) ==
    IF k > Len(records) THEN [err |-> Nil, kernels |-> kernels]
    ELSE IF Len(records[k]) # Len(records[1])
    THEN [err |-> Errorf("failed to read CSV row"), kernels |-> <<>>]
    ELSE LET record == records[k]
             optional(i) ==
                 IF i >= 0 /\ i < Len(record) /\ ParsesAsFloat(record[i + 1])
                 THEN ParseFloat(record[i + 1]) ELSE Sprintf(0, Frac(0, 1))
         IN  IF Len(record) <= idx.avgDurIdx \/ Len(record) <= idx.nameIdx
             THEN ReadRows(records, k + 1, idx, kernels)
             ELSE IF ~ParsesAsFloat(record[idx.avgDurIdx + 1])
             THEN ReadRows(records, k + 1, idx, kernels)
             ELSE ReadRows(records, k + 1, idx,
                     Append(kernels,
                            [Name |-> FieldString(record[idx.nameIdx + 1]),
                             AvgDur |-> ParseFloat(record[idx.avgDurIdx + 1]),
                             MinDur |-> optional(idx.minDurIdx),
                             MaxDur |-> optional(idx.maxDurIdx),
                             StdDev |-> optional(idx.stdDevIdx)]))

readKernelsFromCSV(file) ==
    LET records == CsvRecords(file)
    IN  IF Len(records) = 0
        THEN [err |-> Errorf("failed to read CSV header"), kernels |-> <<>>]
        ELSE LET header == records[1]
                 idx == [nameIdx |-> ColumnIndex(header, "kernel_name"),
                         avgDurIdx |-> ColumnIndex(header, "avg_duration_us"),
                         minDurIdx |-> ColumnIndex(header, "min_duration_us"),
                         maxDurIdx |-> ColumnIndex(header, "max_duration_us"),
                         stdDevIdx |-> ColumnIndex(header, "stddev_us")]
             IN  IF idx.nameIdx = -1 \/ idx.avgDurIdx = -1
                 THEN [err |-> Errorf("CSV missing required columns (kernel_name, avg_duration_us)"),
                       kernels |-> <<>>]
                 ELSE ReadRows(records, 2, idx, <<>>)

\* the result is written to a ".csv" file
WriteToFile ==
    /\ pc = "done"
    /\ csvFile = <<>>
    /\ csvFile' = WriteCSV(result)
    /\ UNCHANGED kernelsRead
    /\ UNCHANGED detVars
    /\ UNCHANGED cmpVars
    /\ UNCHANGED clsVars /\ UNCHANGED xlsVars /\ UNCHANGED trVars /\ UNCHANGED smVars

\* the file is read back as one side of a comparison
ReadKernels ==
    /\ csvFile # <<>>
    /\ kernelsRead = Nil
    /\ kernelsRead' = readKernelsFromCSV(csvFile)
    /\ UNCHANGED csvFile
    /\ UNCHANGED detVars
    /\ UNCHANGED cmpVars
    /\ UNCHANGED clsVars /\ UNCHANGED xlsVars /\ UNCHANGED trVars /\ UNCHANGED smVars

(***************************************************************************)
(* Phase selection: classifyPatterns over a slice of patterns.  A center   *)
(* percentage CenterPos / totalEvents * 100 is carried multiplied by       *)
(* totalEvents, as CenterPos2 * 50, so that it stays an integer.           *)
(***************************************************************************)
MaxPatterns == 3

\* "sig := p.Info.NumCycles * p.Info.CycleLength"
Significance(p) == p.Info.NumCycles * p.Info.CycleLength

\* centerPct * totalEvents
CenterScaled(p) == p.CenterPos2 * 50

\* the slice "significant" with no filter: every pattern
SignificantAll(ps, total) == ps

\* the slice "significant": the patterns that cover at least
\* totalEvents / 100 events, or all of them when none does
Significant(ps, total) ==
    LET minSignificance == total \div 100
        significant ==
            SelectSeq(ps, LAMBDA p : Significance(p) >= minSignificance)
    IN  IF Len(significant) = 0 THEN ps ELSE significant

\* "for _, s := range significant { if s.centerPct < minCenter { ... } }"
RECURSIVE PrefillLoop(_, _, _, _)
PrefillLoop(significant, k, minCenter, prefill) ==
    IF k > Len(significant) THEN prefill
    ELSE IF CenterScaled(significant[k]) < minCenter
    THEN PrefillLoop(significant, k + 1, CenterScaled(significant[k]),
                     significant[k])
    ELSE PrefillLoop(significant, k + 1, minCenter, prefill)

\* "for _, s := range significant { if same signature as prefill { continue }
\*  if s.centerPct > maxCenter { ... } }"
RECURSIVE DecodeLoop(_, _, _, _, _)
DecodeLoop(significant, prefill, k, maxCenter, decode) ==
    IF k > Len(significant) THEN decode
    ELSE IF prefill # Nil /\ significant[k].Signature = prefill.Signature
    THEN DecodeLoop(significant, prefill, k + 1, maxCenter, decode)
    ELSE IF CenterScaled(significant[k]) > maxCenter
    THEN DecodeLoop(significant, prefill, k + 1, CenterScaled(significant[k]),
                    significant[k])
    ELSE DecodeLoop(significant, prefill, k + 1, maxCenter, decode)

classifyPatterns(ps, total) ==
    IF Len(ps) = 0 THEN [prefill |-> Nil, decode |-> Nil]
    ELSE LET significant == Significant(ps, total)
             prefill == PrefillLoop(significant, 1, 101 * total, Nil)
             decode == DecodeLoop(significant, prefill, 1, (-1) * total, Nil)
         IN  [prefill |-> IF prefill = Nil /\ decode # Nil THEN decode ELSE prefill,
              decode |-> IF decode = Nil /\ prefill # Nil THEN prefill ELSE decode]

\* a pattern as findAllCyclePatterns builds it, for a cycle of reps
\* repetitions of len events from start on; sig names its signature group
Pattern(start, len, reps, sig) ==
    LET info == CycleInfo(start, len, reps, [r \in 1..reps |-> start + (len * (r - 1))])
    IN  [Info |-> info, Signature |-> sig,
         StartPos |-> start, EndPos |-> start + (len * reps),
         CenterPos2 |-> start + start + (len * reps), Anchor |-> sig]

\* the slices classified: up to MaxPatterns patterns of pairwise different
\* signature groups, early, in the middle or late in a trace of total events
StartChoices == {0, 100, 5000}
ShapeChoices == {<<10, 5>>, <<12, 8>>}
TotalChoices == {200, 6000, 9650, 10000}
PatternLists(total) ==
    UNION {{[i \in 1..n |-> Pattern(c[i][1], c[i][2][1], c[i][2][2], Distinct(i))] :
               c \in [1..n -> {sc \in StartChoices \X ShapeChoices :
                                  sc[1] + (sc[2][1] * sc[2][2]) <= total}]} :
           n \in 0..MaxPatterns}

InitClassify ==
    /\ totalEvents \in TotalChoices
    /\ plist \in PatternLists(totalEvents)
    /\ phases = Nil
    /\ sheet = Nil
    /\ IdleTrace
    /\ IdleSmart
    /\ events = <<>>
    /\ pc = "idle"
    /\ run = 1
    /\ candidates = {}
    /\ signatureGroups = {}
    /\ patterns = [r \in 1..2 |-> {}]
    /\ detected = [r \in 1..2 |-> NoResult]
    /\ cycleInfo = Nil
    /\ result = Nil
    /\ eager = <<>>
    /\ compiled = <<>>
    /\ CompareMode = "align"
    /\ comparison = Nil
    /\ cpc = "idle"
    /\ csvFile = <<>>
    /\ kernelsRead = Nil

\* main's "llm" mode: classifyPatterns(patterns, len(events))
Classify ==
    /\ totalEvents > 0
    /\ phases = Nil
    /\ phases' = classifyPatterns(plist, totalEvents)
    /\ UNCHANGED <<plist, totalEvents>>
    /\ UNCHANGED detVars
    /\ UNCHANGED cmpVars
    /\ UNCHANGED csvVars
    /\ UNCHANGED xlsVars /\ UNCHANGED trVars /\ UNCHANGED smVars

(***************************************************************************)
(* Comparator.  A kernel list entry carries Pos, its position in the list  *)
(* it was read from; a match carries the Pos of the entries it was built   *)
(* from (-1 for none).  Pos is bookkeeping of this model, read by no code  *)
(* path.                                                                   *)
(***************************************************************************)
MaxKernels == 3

CompareNames == {Anchor0, Anchor1, FillX}

\* the lists of the scenarios: a baseline of pairwise different kernels and
\* every cyclic shift of it, one-kernel lists of template instances, and
\* the fusion lists
ShiftNames == <<NameA, NameB, NameC, NameD, NameE>>
ProbeNames == {KFloat, KDouble, GemmFloat, GemmDouble, AnchorTrailing,
               NumOne, NumTwo, NumNested, TileA, TileB, EvenA, EvenB,
               OverlapA, OverlapB}
ScenarioPairs ==
    {<<[i \in 1..m |-> ShiftNames[i]],
       [i \in 1..m |-> ShiftNames[(((i - 1) + r) % m) + 1]]>> :
         m \in 1..Len(ShiftNames), r \in 0..(Len(ShiftNames) - 1)}
    \cup {<< <<b>>, <<c>> >> : b \in ProbeNames, c \in ProbeNames}
    \cup {<< <<NameX, NameY, NameZ>>, <<NameFused, NameZ>> >>,
          << <<LongX, LongY, LongZ>>, <<LongFused, LongZ>> >>,
          << <<NameX, NameY, Anchor0>>, <<Anchor1, Anchor0>> >>}
ScenarioNames ==
    {ShiftNames[i] : i \in 1..Len(ShiftNames)} \cup ProbeNames
        \cup {NameX, NameY, NameZ, NameFused, LongX, LongY, LongZ, LongFused}

CompareSigTable ==
    [nm \in CompareNames \cup ScenarioNames |-> getKernelSignature(nm)]

\* the statistics of the kernel at 0-based position i of a list; side is 0
\* for the baseline and 1 for the new list
KernelStats(name, i, side) ==
    [Name |-> name, AvgDur |-> (10 * (i + 1)) + (3 * side),
     MinDur |-> (10 * (i + 1)) + (3 * side) - 1,
     MaxDur |-> (10 * (i + 1)) + (3 * side) + 2,
     StdDev |-> 1 + side, Pos |-> i]

KernelList(names, side) ==
    [i \in 1..Len(names) |-> KernelStats(names[i], i - 1, side)]

KernelLists(side) ==
    UNION {{[i \in 1..n |-> KernelStats(names[i], i - 1, side)] :
               names \in [1..n -> CompareNames]} : n \in 0..MaxKernels}

PairedMatch(ek, ck, sig, matchType) ==
    [Index |-> 0, EagerKernels |-> <<ek.Name>>, CompiledKernel |-> ck.Name,
     CompiledDur |-> ck.AvgDur, CompiledMin |-> ck.MinDur,
     CompiledMax |-> ck.MaxDur, CompiledStdDev |-> ck.StdDev,
     EagerDur |-> ek.AvgDur, EagerMin |-> ek.MinDur, EagerMax |-> ek.MaxDur,
     EagerStdDev |-> ek.StdDev, Signature |-> sig, MatchType |-> matchType,
     EagerPos |-> ek.Pos, CompiledPos |-> ck.Pos]

\* a new_only entry that drops the timing of the new kernel
NewOnlyMatchUntimed(ck, sig) ==
    [Index |-> 0, EagerKernels |-> << <<>> >>, CompiledKernel |-> ck.Name,
     CompiledDur |-> 0, CompiledMin |-> 0, CompiledMax |-> 0, CompiledStdDev |-> 0,
     EagerDur |-> 0, EagerMin |-> 0, EagerMax |-> 0, EagerStdDev |-> 0,
     Signature |-> sig, MatchType |-> "new_only",
     EagerPos |-> -1, CompiledPos |-> ck.Pos]

NewOnlyMatch(ck, sig) ==
    [Index |-> 0, EagerKernels |-> << <<>> >>, CompiledKernel |-> ck.Name,
     CompiledDur |-> ck.AvgDur, CompiledMin |-> ck.MinDur,
     CompiledMax |-> ck.MaxDur, CompiledStdDev |-> ck.StdDev,
     EagerDur |-> 0, EagerMin |-> 0, EagerMax |-> 0, EagerStdDev |-> 0,
     Signature |-> sig, MatchType |-> "new_only",
     EagerPos |-> -1, CompiledPos |-> ck.Pos]

RemovedMatch(ek, sig) ==
    [Index |-> 0, EagerKernels |-> <<ek.Name>>, CompiledKernel |-> <<".">>,
     CompiledDur |-> 0, CompiledMin |-> 0, CompiledMax |-> 0,
     CompiledStdDev |-> 0,
     EagerDur |-> ek.AvgDur, EagerMin |-> ek.MinDur, EagerMax |-> ek.MaxDur,
     EagerStdDev |-> ek.StdDev, Signature |-> sig, MatchType |-> "removed",
     EagerPos |-> ek.Pos, CompiledPos |-> -1]

Signatures(kernels) == [i \in 1..Len(kernels) |-> CompareSigTable[kernels[i].Name]]

\* row i of the LCS table, filled from the row above; column c is at c + 1
RECURSIVE LcsRow(_, _, _, _, _)
LcsRow(a, b, i, above, row) ==
    LET j == Len(row)
    IN  IF j > Len(b) THEN row
        ELSE LcsRow(a, b, i, above,
                    Append(row, IF a[i] = b[j] THEN above[j] + 1
                                ELSE IF above[j + 1] > row[j] THEN above[j + 1]
                                ELSE row[j]))

RECURSIVE LcsRows(_, _, _)
LcsRows(a, b, rows) ==
    LET i == Len(rows)
    IN  IF i > Len(a) THEN rows
        ELSE LcsRows(a, b, Append(rows, LcsRow(a, b, i, rows[i], <<0>>)))

\* the (m+1) x (n+1) table "lcs"; lcs[i][j] is LcsTable(a, b)[i + 1][j + 1]
LcsTable(a, b) == LcsRows(a, b, <<[c \in 1..(Len(b) + 1) |-> 0]>>)

computeLCS(a, b) == LcsTable(a, b)[Len(a) + 1][Len(b) + 1]

rotateSlice(s, n) ==
    IF Len(s) = 0 THEN s
    ELSE [i \in 1..Len(s) |-> s[(((i - 1) + (n % Len(s))) % Len(s)) + 1]]

\* rotateKernels that leaves the list as it is
rotateKernelsNone(k, n) == k

rotateKernels(k, n) ==
    IF Len(k) = 0 THEN k
    ELSE [i \in 1..Len(k) |-> k[(((i - 1) + (n % Len(k))) % Len(k)) + 1]]

\* "for rot := 1; rot < len(eager); rot++": the best rotation so far
RECURSIVE RotationLoop(_, _, _, _, _)
RotationLoop(eagerSigs, compiledSigs, rot, bestRotation, bestLCS) ==
    IF rot >= Len(eagerSigs) THEN bestRotation
    ELSE LET lcs == computeLCS(rotateSlice(eagerSigs, rot), compiledSigs)
         IN  IF lcs > bestLCS
             THEN RotationLoop(eagerSigs, compiledSigs, rot + 1, rot, lcs)
             ELSE RotationLoop(eagerSigs, compiledSigs, rot + 1, bestRotation, bestLCS)

\* the search that never rotates
BestRotationZero(eagerSigs, compiledSigs) == 0

BestRotation(eagerSigs, compiledSigs) ==
    IF Len(eagerSigs) = Len(compiledSigs) /\ Len(eagerSigs) > 0
    THEN RotationLoop(eagerSigs, compiledSigs, 1, 0,
                      computeLCS(eagerSigs, compiledSigs))
    ELSE 0

\* AlignedType without the name comparison
AlignedTypeExact(ek, ck) == "exact"

\* the match type of two aligned kernels with equal signatures
AlignedType(ek, ck) == IF ek.Name = ck.Name THEN "exact" ELSE "similar"

\* the test with ties resolved toward the baseline side
TakeNewStrict(lcs, i, j) == j > 0 /\ (i = 0 \/ lcs[i + 1][j] > lcs[i][j + 1])

\* "j > 0 && (i == 0 || lcs[i][j-1] >= lcs[i-1][j])"
TakeNew(lcs, i, j) == j > 0 /\ (i = 0 \/ lcs[i + 1][j] >= lcs[i][j + 1])

\* "for i > 0 || j > 0": the matches in the order they are appended
RECURSIVE Backtrack(_, _, _, _, _, _, _, _)
Backtrack(eagerK, compiledK, eagerSigs, compiledSigs, lcs, i, j, aligned) ==
    IF ~(i > 0 \/ j > 0) THEN aligned
    ELSE IF i > 0 /\ j > 0 /\ eagerSigs[i] = compiledSigs[j]
    THEN Backtrack(eagerK, compiledK, eagerSigs, compiledSigs, lcs, i - 1, j - 1,
                   Append(aligned,
                          PairedMatch(eagerK[i], compiledK[j], eagerSigs[i],
                                      AlignedType(eagerK[i], compiledK[j]))))
    ELSE IF TakeNew(lcs, i, j)
    THEN Backtrack(eagerK, compiledK, eagerSigs, compiledSigs, lcs, i, j - 1,
                   Append(aligned, NewOnlyMatch(compiledK[j], compiledSigs[j])))
    ELSE Backtrack(eagerK, compiledK, eagerSigs, compiledSigs, lcs, i - 1, j,
                   Append(aligned, RemovedMatch(eagerK[i], eagerSigs[i])))

\* "for k := len(alignedMatches) - 1; k >= 0; k--": reversed and numbered
ReverseIndexed(aligned) ==
    [k \in 1..Len(aligned) |->
        [aligned[Len(aligned) + 1 - k] EXCEPT !.Index = k - 1]]

matchByAlignment(eagerKernels, compiledKernels) ==
    LET bestRotation == BestRotation(Signatures(eagerKernels),
                                     Signatures(compiledKernels))
        eagerK == IF bestRotation > 0
                  THEN rotateKernels(eagerKernels, bestRotation) ELSE eagerKernels
        eagerSigs == IF bestRotation > 0
                     THEN rotateSlice(Signatures(eagerKernels), bestRotation)
                     ELSE Signatures(eagerKernels)
        compiledSigs == Signatures(compiledKernels)
        lcs == LcsTable(eagerSigs, compiledSigs)
    IN  ReverseIndexed(Backtrack(eagerK, compiledKernels, eagerSigs, compiledSigs,
                                 lcs, Len(eagerK), Len(compiledKernels), <<>>))

\* FirstUnmatched without the matchedEagerIdx test: the first entry
FirstEntry(entries, matchedEagerIdx) ==
    IF entries # {} THEN CHOOSE i \in entries : \A k \in entries : i <= k ELSE 0

\* "for i := range entries { if !matchedEagerIdx[entries[i].idx] {...; break} }"
\* over the entries the map holds under a key: the 1-based position of the
\* first entry not matched yet, 0 for none
FirstUnmatched(entries, matchedEagerIdx) ==
    IF \E i \in entries : i \notin matchedEagerIdx
    THEN CHOOSE i \in entries :
            i \notin matchedEagerIdx
            /\ \A k \in entries : k \notin matchedEagerIdx => i <= k
    ELSE 0

eagerByName(eagerKernels, name) ==
    {i \in 1..Len(eagerKernels) : eagerKernels[i].Name = name}

\* eagerBySig that holds every kernel under every signature
eagerBySigAny(eagerKernels, sig) == 1..Len(eagerKernels)

eagerBySig(eagerKernels, sig) ==
    {i \in 1..Len(eagerKernels) : CompareSigTable[eagerKernels[i].Name] = sig}

\* "for _, ck := range compiled": c is the next new kernel
RECURSIVE MatchLoop(_, _, _, _, _)
MatchLoop(eagerKernels, compiledKernels, c, matchedEagerIdx, matches) ==
    IF c > Len(compiledKernels)
    THEN [matches |-> matches, matchedEagerIdx |-> matchedEagerIdx]
    ELSE LET ck == compiledKernels[c]
             sig == CompareSigTable[ck.Name]
             byName == FirstUnmatched(eagerByName(eagerKernels, ck.Name),
                                      matchedEagerIdx)
             bySig == FirstUnmatched(eagerBySig(eagerKernels, sig), matchedEagerIdx)
             matched == IF byName # 0 THEN byName ELSE bySig
             matchType == IF byName # 0 THEN "exact" ELSE "similar"
             idx == Len(matches)
         IN  IF matched # 0
             THEN MatchLoop(eagerKernels, compiledKernels, c + 1,
                            matchedEagerIdx \cup {matched},
                            Append(matches,
                                   [PairedMatch(eagerKernels[matched], ck, sig,
                                                matchType) EXCEPT !.Index = idx]))
             ELSE MatchLoop(eagerKernels, compiledKernels, c + 1, matchedEagerIdx,
                            Append(matches,
                                   [NewOnlyMatch(ck, sig) EXCEPT !.Index = idx]))

\* "for i, ek := range eager { if matchedEagerIdx[i] { continue } ... }"
RECURSIVE RemovedLoop(_, _, _, _)
RemovedLoop(eagerKernels, i, matchedEagerIdx, matches) ==
    IF i > Len(eagerKernels) THEN matches
    ELSE IF i \in matchedEagerIdx
    THEN RemovedLoop(eagerKernels, i + 1, matchedEagerIdx, matches)
    ELSE RemovedLoop(eagerKernels, i + 1, matchedEagerIdx,
                     Append(matches,
                            [RemovedMatch(eagerKernels[i],
                                          CompareSigTable[eagerKernels[i].Name])
                                EXCEPT !.Index = Len(matches)]))

\* matchBySignature whose second loop does not skip the matched kernels
matchBySignatureAllRemoved(eagerKernels, compiledKernels) ==
    RemovedLoop(eagerKernels, 1, {},
                MatchLoop(eagerKernels, compiledKernels, 1, {}, <<>>).matches)

matchBySignature(eagerKernels, compiledKernels) ==
    LET paired == MatchLoop(eagerKernels, compiledKernels, 1, {}, <<>>)
    IN  RemovedLoop(eagerKernels, 1, paired.matchedEagerIdx, paired.matches)

matchKernelsBySignature(mode, eagerKernels, compiledKernels) ==
    IF mode = "align" THEN matchByAlignment(eagerKernels, compiledKernels)
    ELSE matchBySignature(eagerKernels, compiledKernels)

\* CompareFromCSV after both lists were read
CompareFromCSV(mode, eagerKernels, compiledKernels) ==
    LET ms == matchKernelsBySignature(mode, eagerKernels, compiledKernels)
    IN  [EagerCycle |-> Len(eagerKernels), CompiledCycle |-> Len(compiledKernels),
         Matches |-> ms,
         TotalTime |-> SumSeq([k \in 1..Len(ms) |-> ms[k].CompiledDur])]

\* the pairs of lists compared: every pair of short lists over CompareNames,
\* and the scenarios
\* a kernel list with the given average durations
TimedList(names, avgs) ==
    [i \in 1..Len(names) |->
        [Name |-> names[i], AvgDur |-> avgs[i], MinDur |-> avgs[i] - 1,
         MaxDur |-> avgs[i] + 2, StdDev |-> 1, Pos |-> i - 1]]

\* baseline and new lists whose paired kernels change by -7%, +6%, +3%, by
\* -5%, +5%, 0% and by -6%, +4%, -4%
TimedPairs ==
    {<<TimedList(<<NameA, NameB, NameC>>, <<100, 100, 100>>),
       TimedList(<<NameA, NameB, NameC>>, avgs)>> :
         avgs \in {<<93, 106, 103>>, <<95, 105, 100>>, <<94, 104, 96>>}}
    \cup {<<TimedList(<<NameA, NameB>>, <<20, 40>>),
            TimedList(<<NameA, NameB>>, avgs)>> :
              avgs \in {<<21, 38>>, <<19, 42>>, <<22, 37>>}}

ComparePairs ==
    (KernelLists(0) \X KernelLists(1))
        \cup {<<KernelList(p[1], 0), KernelList(p[2], 1)>> : p \in ScenarioPairs}
        \cup TimedPairs

InitCompare ==
    /\ \E pair \in ComparePairs : eager = pair[1] /\ compiled = pair[2]
    /\ CompareMode \in {"align", "match"}
    /\ comparison = Nil
    /\ cpc = "read"
    /\ events = <<>>
    /\ pc = "idle"
    /\ run = 1
    /\ candidates = {}
    /\ signatureGroups = {}
    /\ patterns = [r \in 1..2 |-> {}]
    /\ detected = [r \in 1..2 |-> NoResult]
    /\ cycleInfo = Nil
    /\ result = Nil
    /\ csvFile = <<>>
    /\ kernelsRead = Nil
    /\ plist = <<>>
    /\ totalEvents = 0
    /\ phases = Nil
    /\ sheet = Nil
    /\ IdleTrace
    /\ IdleSmart

Compare ==
    /\ cpc = "read"
    /\ comparison' = CompareFromCSV(CompareMode, eager, compiled)
    /\ cpc' = "compared"
    /\ UNCHANGED <<eager, compiled, CompareMode>>
    /\ UNCHANGED detVars
    /\ UNCHANGED csvVars
    /\ UNCHANGED clsVars /\ UNCHANGED xlsVars /\ UNCHANGED trVars /\ UNCHANGED smVars

(***************************************************************************)
(* The comparison sheet (writeComparisonToSheet): one row per match; the   *)
(* model keeps the cells of columns K (change) and L (match type).  The    *)
(* durations are whole microseconds here, so the change percentage         *)
(* ((new - base) / base) * 100 is the exact fraction num / den, den > 0.   *)
(***************************************************************************)
changePercent(m) ==
    [num |-> (m.CompiledDur - m.EagerDur) * 100, den |-> m.EagerDur]

\* the style with both thresholds inclusive
ChangeStyleInclusive(c) ==
    IF c.num <= (-5) * c.den THEN "improved"
    ELSE IF c.num >= 5 * c.den THEN "regressed"
    ELSE "neutral"

\* if changePercent < -5 improved, else if changePercent > 5 regressed,
\* else neutral
ChangeStyle(c) ==
    IF c.num < (-5) * c.den THEN "improved"
    ELSE IF c.num > 5 * c.den THEN "regressed"
    ELSE "neutral"

NoCell == [Value |-> Nil, Style |-> Nil]

ChangeCell(m) ==
    IF m.EagerDur > 0 /\ m.CompiledDur > 0
    THEN [Value |-> changePercent(m), Style |-> ChangeStyle(changePercent(m))]
    ELSE IF m.MatchType = "new_only"
    THEN [Value |-> [text |-> "NEW"], Style |-> "neutral"]
    ELSE IF m.MatchType = "removed"
    THEN [Value |-> [text |-> "REMOVED"], Style |-> "improved"]
    ELSE NoCell

SheetRows(r) ==
    [k \in 1..Len(r.Matches) |->
        [K |-> ChangeCell(r.Matches[k]), L |-> r.Matches[k].MatchType]]

writeComparisonToSheet ==
    /\ cpc = "compared"
    /\ sheet = Nil
    /\ sheet' = [Rows |-> SheetRows(comparison)]
    /\ UNCHANGED cmpVars
    /\ UNCHANGED detVars
    /\ UNCHANGED csvVars
    /\ UNCHANGED clsVars
    /\ UNCHANGED trVars /\ UNCHANGED smVars

(***************************************************************************)
(* The trace reader (parseTraceEventsArray; streamTraceEvents runs the     *)
(* same loop and hands each kernel event to a callback).  An element of    *)
(* the traceEvents array is a JSON object that decodes into a TraceEvent   *)
(* ("ok"), a JSON value that json.Decoder reads but cannot store in a      *)
(* TraceEvent, such as an object whose pid is a string ("mistyped"), or    *)
(* text that is not a JSON value, such as an object cut off in the middle  *)
(* ("garbled").  Names are the kernel names of the detector.               *)
(***************************************************************************)
MaxElems == 3

TraceElement(form, name, cat, ph) ==
    [form |-> form, name |-> name, cat |-> cat, ph |-> ph]

ElementChoices ==
    {TraceElement("ok", NameA, "kernel", "X"),
     TraceElement("ok", NameB, "kernel", "X"),
     TraceElement("ok", NameC, "kernel", "B"),
     TraceElement("ok", NameD, "cpu_op", "X"),
     TraceElement("mistyped", NameE, "kernel", "X"),
     TraceElement("garbled", NameE, "kernel", "X")}

TraceArrays == UNION {[1..n -> ElementChoices] : n \in 0..MaxElems}

\* decoder.More(): the next byte that is not a space is neither ] nor };
\* the read offset stays at the start of an element the scanner rejected
More == tpos < Len(traceElems)

\* decoder.Decode(&event) at element e: a sticky error is returned again
\* without reading; a syntax error becomes the sticky error and leaves the
\* offset where it was; a value of the wrong type is consumed and reported
DecodeResult(e) ==
    IF decErr THEN [err |-> TRUE, consumed |-> FALSE, sticky |-> TRUE]
    ELSE IF e.form = "garbled" THEN [err |-> TRUE, consumed |-> FALSE, sticky |-> TRUE]
    ELSE IF e.form = "mistyped" THEN [err |-> TRUE, consumed |-> TRUE, sticky |-> FALSE]
    ELSE [err |-> FALSE, consumed |-> TRUE, sticky |-> FALSE]

KernelEvent(e) == [Name |-> e.name, Category |-> e.cat, Phase |-> e.ph]

\* event.Category == "kernel" && event.Phase == "X"
Retained(e) == e.cat = "kernel" /\ e.ph = "X"

InitTrace ==
    /\ traceElems \in TraceArrays
    /\ tpc = "loop"
    /\ tpos = 0
    /\ decErr = FALSE
    /\ kernelEvents = <<>>
    /\ IdleSmart
    /\ phases = Nil
    /\ plist = <<>>
    /\ totalEvents = 0
    /\ sheet = Nil
    /\ events = <<>>
    /\ pc = "idle"
    /\ run = 1
    /\ candidates = {}
    /\ signatureGroups = {}
    /\ patterns = [r \in 1..2 |-> {}]
    /\ detected = [r \in 1..2 |-> NoResult]
    /\ cycleInfo = Nil
    /\ result = Nil
    /\ eager = <<>>
    /\ compiled = <<>>
    /\ CompareMode = "align"
    /\ comparison = Nil
    /\ cpc = "idle"
    /\ csvFile = <<>>
    /\ kernelsRead = Nil

\* one iteration of "for decoder.More()"
DecodeEvent ==
    /\ tpc = "loop"
    /\ More
    /\ LET e == traceElems[tpos + 1]
           d == DecodeResult(e)
       IN  /\ tpos' = IF d.consumed THEN tpos + 1 ELSE tpos
           /\ decErr' = (decErr \/ d.sticky)
           /\ kernelEvents' = IF ~d.err /\ Retained(e)
                                THEN Append(kernelEvents, KernelEvent(e))
                                ELSE kernelEvents
    /\ UNCHANGED <<traceElems, tpc>>
    /\ UNCHANGED detVars
    /\ UNCHANGED cmpVars
    /\ UNCHANGED csvVars
    /\ UNCHANGED clsVars
    /\ UNCHANGED xlsVars
    /\ UNCHANGED smVars

\* the loop is left, the array end is read and kernelEvents is returned
ReturnKernelEvents ==
    /\ tpc = "loop"
    /\ ~More
    /\ tpc' = "returned"
    /\ UNCHANGED <<traceElems, tpos, decErr, kernelEvents>>
    /\ UNCHANGED detVars
    /\ UNCHANGED cmpVars
    /\ UNCHANGED csvVars
    /\ UNCHANGED clsVars
    /\ UNCHANGED xlsVars
    /\ UNCHANGED smVars

(***************************************************************************)
(* Batch comparison (smartMatchCycles).  A cycleInfo is modelled by its    *)
(* kernelSigs map, signature -> share of the cycle time, with whole        *)
(* percentages; a similarity is the exact fraction num / den.              *)
(***************************************************************************)
MaxCycles == 2

SigA == <<"s", "a">>
SigB == <<"s", "b">>
SigC == <<"s", "c">>

\* what loadCycleInfo returns: no rows read, and four mixes of signatures
CycleChoices ==
    {[kernelSigs |-> <<>>],
     [kernelSigs |-> (SigA :> 60) @@ (SigB :> 40)],
     [kernelSigs |-> (SigA :> 100)],
     [kernelSigs |-> (SigA :> 20)],
     [kernelSigs |-> (SigA :> 10) @@ (SigC :> 90)]}

CycleLists == UNION {[1..n -> CycleChoices] : n \in 0..MaxCycles}

\* a.kernelSigs[k]: the zero value when k is missing
SigShare(c, k) == IF k \in DOMAIN c.kernelSigs THEN c.kernelSigs[k] ELSE 0

SumOver(f, S) ==
    LET RECURSIVE Go(_)
        Go(T) == IF T = {} THEN 0
                 ELSE LET k == CHOOSE x \in T : TRUE IN f[k] + Go(T \ {k})
    IN  Go(S)

computeCycleSimilarity(a, b) ==
    IF DOMAIN a.kernelSigs = {} \/ DOMAIN b.kernelSigs = {}
    THEN [num |-> 0, den |-> 1]
    ELSE LET allSigs == DOMAIN a.kernelSigs \cup DOMAIN b.kernelSigs
             minSum == SumOver([k \in allSigs |->
                          IF SigShare(a, k) < SigShare(b, k)
                          THEN SigShare(a, k) ELSE SigShare(b, k)], allSigs)
             maxSum == SumOver([k \in allSigs |->
                          IF SigShare(a, k) < SigShare(b, k)
                          THEN SigShare(b, k) ELSE SigShare(a, k)], allSigs)
         IN  IF maxSum = 0 THEN [num |-> 0, den |-> 1]
             ELSE [num |-> minSum, den |-> maxSum]

\* x > y for fractions with positive denominators
FracGreater(x, y) == x.num * y.den > y.num * x.den

\* the threshold taken as exclusive
BelowThresholdInclusive(x) == 5 * x.num <= x.den

\* bestSim < 0.2
BelowThreshold(x) == 5 * x.num < x.den

\* the pair the two nested loops leave in bestBase, bestNew: the first, in
\* (i, j) order, of the unused pairs of largest similarity above 0
BestPair(similarity, usedBaseline, usedNew) ==
    LET free == {p \in (DOMAIN similarity) \X (1..Len(newCycles)) :
                    /\ p[1] \notin usedBaseline
                    /\ p[2] \notin usedNew
                    /\ similarity[p[1]][p[2]].num > 0}
        top == {p \in free : \A q \in free :
                    ~FracGreater(similarity[q[1]][q[2]], similarity[p[1]][p[2]])}
    IN  IF free = {} THEN <<0, 0>>
        ELSE CHOOSE p \in top : \A q \in top :
                 p[1] < q[1] \/ (p[1] = q[1] /\ p[2] <= q[2])

RECURSIVE GreedyLoop(_, _, _, _)
GreedyLoop(similarity, usedBaseline, usedNew, matches) ==
    LET best == BestPair(similarity, usedBaseline, usedNew)
    IN  IF best = <<0, 0>> THEN matches
        ELSE IF BelowThreshold(similarity[best[1]][best[2]]) THEN matches
        ELSE GreedyLoop(similarity, usedBaseline \cup {best[1]},
                        usedNew \cup {best[2]},
                        Append(matches, [baseIdx |-> best[1], newIdx |-> best[2],
                                         sim |-> similarity[best[1]][best[2]]]))

\* sort.Slice by baseIdx; the baseIdx of the matches are distinct
RECURSIVE SortByBase(_)
SortByBase(S) ==
    IF S = {} THEN <<>>
    ELSE LET m == CHOOSE x \in S : \A y \in S : x.baseIdx <= y.baseIdx
         IN  <<m>> \o SortByBase(S \ {m})

SimilarityMatrix ==
    [i \in 1..Len(baselineCycles) |->
        [j \in 1..Len(newCycles) |->
            computeCycleSimilarity(baselineCycles[i], newCycles[j])]]

InitSmart ==
    /\ baselineCycles \in CycleLists
    /\ newCycles \in CycleLists
    /\ spc = "loaded"
    /\ smart = Nil
    /\ IdleTrace
    /\ phases = Nil
    /\ plist = <<>>
    /\ totalEvents = 0
    /\ sheet = Nil
    /\ events = <<>>
    /\ pc = "idle"
    /\ run = 1
    /\ candidates = {}
    /\ signatureGroups = {}
    /\ patterns = [r \in 1..2 |-> {}]
    /\ detected = [r \in 1..2 |-> NoResult]
    /\ cycleInfo = Nil
    /\ result = Nil
    /\ eager = <<>>
    /\ compiled = <<>>
    /\ CompareMode = "align"
    /\ comparison = Nil
    /\ cpc = "idle"
    /\ csvFile = <<>>
    /\ kernelsRead = Nil

\* the similarity matrix, the greedy loop and the sort by baseline index
smartMatchCycles ==
    /\ spc = "loaded"
    /\ LET chosen == GreedyLoop(SimilarityMatrix, {}, {}, <<>>)
       IN  smart' = [chosen |-> chosen,
                     matches |-> SortByBase({chosen[k] : k \in 1..Len(chosen)})]
    /\ spc' = "matched"
    /\ UNCHANGED <<baselineCycles, newCycles>>
    /\ UNCHANGED detVars
    /\ UNCHANGED cmpVars
    /\ UNCHANGED csvVars
    /\ UNCHANGED clsVars
    /\ UNCHANGED xlsVars
    /\ UNCHANGED trVars

(***************************************************************************)
(* The program: a run either analyses a trace or compares two kernel lists.*)
(***************************************************************************)
Init == InitDetect \/ InitCompare \/ InitClassify \/ InitTrace \/ InitSmart

Next ==
    \/ StartFindAll
    \/ ProcessCandidate
    \/ FinishFindAll
    \/ Detect
    \/ Extract
    \/ NoCycleFound
    \/ WriteToFile
    \/ ReadKernels
    \/ Classify
    \/ Compare
    \/ writeComparisonToSheet
    \/ DecodeEvent
    \/ ReturnKernelEvents
    \/ smartMatchCycles

Spec == Init /\ [][Next]_vars

\* the reader is sequential code: an iteration or a return that can be
\* taken is taken
LiveSpec == Spec /\ WF_trVars(DecodeEvent \/ ReturnKernelEvents)

(***************************************************************************)
(* Properties of the comparator.                                           *)
(***************************************************************************)
Compared == cpc = "compared"

MatchTypes(ms) == {ms[k].MatchType : k \in 1..Len(ms)}

\* C1: in align mode (also after a rotation) and in match mode, every
\* baseline position and every new position is used by at most one emitted
\* KernelMatch.
C1_EachKernelAtMostOnce ==
    Compared =>
        \A a, b \in 1..Len(comparison.Matches) :
            LET ma == comparison.Matches[a]
                mb == comparison.Matches[b]
            IN  a # b =>
                    /\ ma.EagerPos # -1 => ma.EagerPos # mb.EagerPos
                    /\ ma.CompiledPos # -1 => ma.CompiledPos # mb.CompiledPos

\* C1 witness: an alignment that rotated the baseline and emitted pairs, a
\* new-only and a removed kernel over lists with repeated names.
C1_Witness ==
    /\ Compared
    /\ CompareMode = "align"
    /\ BestRotation(Signatures(eager), Signatures(compiled)) > 0
    /\ \E i, j \in 1..Len(eager) : i # j /\ eager[i].Name = eager[j].Name
    /\ {"new_only", "removed"} \subseteq MatchTypes(comparison.Matches)
    /\ MatchTypes(comparison.Matches) \cap {"exact", "similar"} # {}

Unrefined(evs) ==
    ({CandidateCycle(evs, c.name) : c \in AnchorCandidates(evs)} \ {Nil})
        \cup findOuterCycle(evs)
        \cup IF Len(evs) >= 20 THEN {DetectCycleAuto(evs)} \ {Nil} ELSE {}

Starts(info) == info.CycleIndices

\* C3: for every returned descriptor, every index repetition_starts[r] + j
\* with r < num_repetitions and j < cycle_length is an index of the events.
C3_IndicesInBounds ==
    \A info \in Returned :
        \A r \in 1..Len(Starts(info)) :
            \A j \in 0..(info.CycleLength - 1) :
                r <= info.NumCycles => Starts(info)[r] + j < Len(events)

Tolerance(info) ==
    IF info \in Unrefined(events)
    THEN max(1, info.CycleLength \div 20)
    ELSE max(1, info.CycleLength \div 10)

\* C4: for every returned descriptor, consecutive repetition starts differ
\* by cycle_length within the regularity tolerance: no repetition is skipped
\* and no two retained repetitions overlap.
C4_RegularGaps ==
    \A info \in Returned :
        \A r \in 1..(Len(Starts(info)) - 1) :
            abs((Starts(info)[r + 1] - Starts(info)[r]) - info.CycleLength)
                <= Tolerance(info)

\* the number of positions of repetition r that agree with the first one
Agreeing(info, r, key) ==
    Cardinality({j \in 0..(info.CycleLength - 1) :
        /\ Starts(info)[r] + j < Len(events)
        /\ key[events[Starts(info)[1] + j + 1].Name]
               = key[events[Starts(info)[r] + j + 1].Name]})

\* C5: every retained repetition agrees with the first repetition in at
\* least 95% of the positions by name hash; for a descriptor built by
\* sub-cycle refinement, in at least 80% of the positions by signature.
C5_RepetitionsMatchFirst ==
    \A info \in Returned :
        \A r \in 2..Len(Starts(info)) :
            IF info \in Unrefined(events)
            THEN 20 * Agreeing(info, r, HashTable) >= 19 * info.CycleLength
            ELSE 5 * Agreeing(info, r, SigTable) >= 4 * info.CycleLength

\* C6: every returned descriptor has cycle_length >= 10, also after
\* sub-cycle refinement.
C6_MinCycleLength ==
    \A info \in Returned : info.CycleLength >= 10

\* C7: in every CycleResult built from a returned descriptor, every position
\* has count equal to num_repetitions.
C7_CountIsRepetitions ==
    pc = "done" =>
        /\ Len(result.Kernels) = result.CycleLength
        /\ \A i \in 1..Len(result.Kernels) :
               result.Kernels[i].Count = result.NumCycles

\* the durations of all events the aggregation visits
VisitedDurations(evs, info) ==
    SumSeq([r \in 1..Len(Starts(info)) |->
        SumSeq([q \in 1..info.CycleLength |->
            IF Starts(info)[r] + q - 1 < Len(evs)
            THEN evs[Starts(info)[r] + q].Duration ELSE 0])])

\* C8: in every CycleResult built from a returned descriptor,
\* avg_cycle_time is the sum of the per-position averages and
\* total_cycle_time is the sum of the durations of all events visited.
C8_AvgCycleTimeIsSumOfAverages ==
    pc = "done" =>
        /\ result.AvgCycleTime
               = FracSum([i \in 1..Len(result.Kernels) |-> result.Kernels[i].AvgDur])
        /\ result.TotalCycleTime = VisitedDurations(events, cycleInfo)

\* the events are exactly k repetitions of the window win
IsVerbatim(win, k) ==
    /\ Len(events) = k * Len(win)
    /\ \A i \in 1..Len(events) : events[i].Name = win[((i - 1) % Len(win)) + 1]

\* the descriptor of k back-to-back repetitions of an L-long window
Expected(L, k) == CycleInfo(0, L, k, [r \in 1..k |-> (r - 1) * L])

\* the arithmetic mean of the k durations observed at 0-based position i
MeanAt(i, L, k) == Frac(SumSeq([r \in 1..k |-> events[((r - 1) * L) + i + 1].Duration]), k)

RoundTripResult(L, k) ==
    /\ result.CycleLength = L
    /\ result.NumCycles = k
    /\ Len(result.Kernels) = L
    /\ \A i \in 1..L :
           /\ result.Kernels[i].Count = k
           /\ result.Kernels[i].AvgDur = MeanAt(i - 1, L, k)

Analysed == pc \in {"done", "failed"}

\* C9: for a stream that is exactly k repetitions of an L-long sequence,
\* detection followed by ExtractCycle yields one descriptor with
\* cycle_length L and num_repetitions k, and every position's avg is the
\* mean of its k durations.
C9_RoundTrip ==
    \A win \in {WinABC, WinDistinct, WinTie, WinTieLate, WinSub, WinDrift} :
        \A k \in 1..(MaxReps + 1) :
            IsVerbatim(win, k) /\ Analysed =>
                /\ pc = "done"
                /\ Returned = {Expected(Len(win), k)}
                /\ RoundTripResult(Len(win), k)

\* findAllCyclePatterns has returned in run r
FindAllDone(r) ==
    pc \in {"detect", "extract", "done", "failed"} \/ (r = 1 /\ run = 2)

\* C9 as it holds: for k >= 5 repetitions of a sequence of L >= 10 kernels
\* with pairwise different names and signatures, DetectCycleBySignature
\* returns (start 0, length L, k repetitions), findAllCyclePatterns returns
\* that descriptor as its only pattern with k repetitions next to patterns of
\* the same length with fewer repetitions, and ExtractCycle of that
\* descriptor gives every position count k and the mean of its k durations.
C9_RoundTripDistinct ==
    \A k \in 5..(MaxReps + 1) :
        IsVerbatim(WinDistinct, k) =>
            /\ \A r \in 1..2 :
                   detected[r].done => detected[r].info = Expected(DistinctLen, k)
            /\ \A r \in 1..2 :
                   FindAllDone(r) =>
                       /\ {p.Info : p \in {q \in patterns[r] : q.Info.NumCycles >= k}}
                              = {Expected(DistinctLen, k)}
                       /\ \A p \in patterns[r] : p.Info.CycleLength = DistinctLen
            /\ pc = "done" /\ cycleInfo = Expected(DistinctLen, k) =>
                   RoundTripResult(DistinctLen, k)

\* C9 witness: six repetitions of the ten-kernel window were detected and
\* aggregated, and some position's mean is not a whole number.
C9_Witness ==
    /\ pc = "done"
    /\ IsVerbatim(WinDistinct, 6)
    /\ cycleInfo = Expected(DistinctLen, 6)
    /\ detected[1].info = Expected(DistinctLen, 6)
    /\ \E i \in 1..Len(result.Kernels) : result.Kernels[i].AvgDur.den > 1

\* C10: two runs of findAllCyclePatterns and of DetectCycleBySignature over
\* the same events return the same descriptors, whatever the map iteration
\* order and however ties are broken.
C10_Deterministic ==
    /\ FindAllDone(2) =>
           {p.Info : p \in patterns[1]} = {p.Info : p \in patterns[2]}
    /\ detected[1].done /\ detected[2].done =>
           detected[1].info = detected[2].info

(***************************************************************************)
(* Further properties of the comparator.                                   *)
(***************************************************************************)
\* what a list of matches reports, without the order: for every match the
\* baseline name, the new name and the match type
MatchSet(ms) ==
    {<<ms[k].EagerKernels, ms[k].CompiledKernel, ms[k].MatchType>> :
        k \in 1..Len(ms)}

AlignCompared == Compared /\ CompareMode = "align"

\* C11: for every rotation r of the baseline, matchByAlignment of the
\* rotated baseline and the new list reports the same pairs, the same
\* removed and new_only kernels and the same exact/similar partition as
\* matchByAlignment of the baseline itself.
C11_RotationSymmetry ==
    AlignCompared =>
        \A r \in 0..(Len(eager) - 1) :
            MatchSet(matchByAlignment(rotateKernels(eager, r), compiled))
                = MatchSet(comparison.Matches)

\* the new list is the baseline shifted by r: new[i] = baseline[(i + r) % m]
IsShift(r) ==
    /\ Len(eager) = Len(compiled)
    /\ \A i \in 1..Len(eager) :
           compiled[i].Name = eager[(((i - 1) + r) % Len(eager)) + 1].Name

DistinctSignatures(kernels) ==
    \A i, j \in 1..Len(kernels) :
        i # j => getKernelSignature(kernels[i].Name)
                     # getKernelSignature(kernels[j].Name)

\* C12: in align mode, when the new list is the baseline of m > 0 kernels
\* with pairwise different signatures shifted by r, rotation r is selected
\* and the result is exactly m exact matches in the new list's order, with
\* no new_only and no removed entry.
C12_ShiftedBaselineAllExact ==
    AlignCompared /\ Len(eager) > 0 /\ DistinctSignatures(eager) =>
        \A r \in 0..(Len(eager) - 1) :
            IsShift(r) =>
                /\ BestRotation(Signatures(eager), Signatures(compiled)) = r
                /\ Len(comparison.Matches) = Len(eager)
                /\ \A k \in 1..Len(comparison.Matches) :
                       LET m == comparison.Matches[k]
                       IN  /\ m.MatchType = "exact"
                           /\ m.Index = k - 1
                           /\ m.CompiledPos = k - 1
                           /\ m.CompiledKernel = compiled[k].Name
                           /\ m.EagerKernels = <<compiled[k].Name>>
                           /\ m.EagerPos = ((k - 1) + r) % Len(eager)

\* C12 witness: the spec's lists [A,B,C,D,E] and [C,D,E,A,B] were aligned
\* with rotation 2.
C12_Witness ==
    /\ AlignCompared
    /\ eager = KernelList(ShiftNames, 0)
    /\ DistinctSignatures(eager)
    /\ IsShift(2)
    /\ BestRotation(Signatures(eager), Signatures(compiled)) = 2
    /\ Len(comparison.Matches) = 5


\* C13: the file WriteCSV writes for a cycle result is read back by
\* readKernelsFromCSV without error, as one entry per kernel of the result,
\* in order, with the same name and the avg, min, max and stddev that were
\* written, to three decimals.
C13_CsvRoundTrip ==
    kernelsRead # Nil =>
        /\ kernelsRead.err = Nil
        /\ Len(kernelsRead.kernels) = Len(result.Kernels)
        /\ \A i \in 1..Len(result.Kernels) :
              /\ kernelsRead.kernels[i].Name = result.Kernels[i].Name
              /\ kernelsRead.kernels[i].AvgDur = Sprintf(3, result.Kernels[i].AvgDur)
              /\ kernelsRead.kernels[i].MinDur
                    = Sprintf(3, Frac(result.Kernels[i].MinDur, 1))
              /\ kernelsRead.kernels[i].MaxDur
                    = Sprintf(3, Frac(result.Kernels[i].MaxDur, 1))
              /\ kernelsRead.kernels[i].StdDev
                    = Sprintf(3, [sqrt |-> result.Kernels[i].Variance])

\* the names of the kernels of both lists of a comparison
ComparedNames ==
    {eager[i].Name : i \in 1..Len(eager)} \cup {compiled[i].Name : i \in 1..Len(compiled)}

\* the normalised name has at least three characters, so the signature is
\* the normalised name and not the hash fallback
NonFallback(name) ==
    Len(TrimRightUnderscore(StripTrailingNumbers(
            StripConfig(TruncateTemplate(name), 1)))) >= 3
NonFallbackDetector(name) ==
    Len(TrimRightUnderscore(StripTrailingNumbers(TruncateTemplate(name)))) >= 3

\* C14: for every kernel name whose signature is produced on the
\* non-fallback path, the signature of the signature is the signature, for
\* the comparator's getKernelSignature and for the detector's.
C14_SignatureIdempotent ==
    cpc = "compared" =>
        \A x \in ComparedNames :
            /\ NonFallback(x) =>
                  \A s \in {getKernelSignature(x)} : getKernelSignature(s) = s
            /\ NonFallbackDetector(x) =>
                  \A s \in {getKernelSignatureDetector(x)} :
                      getKernelSignatureDetector(s) = s

\* a and b are equal up to their first "<" and differ after it
SameUpToTemplate(a, b) ==
    /\ Index(a, <<"<">>) > 0
    /\ Index(b, <<"<">>) = Index(a, <<"<">>)
    /\ Slice(a, 0, Index(a, <<"<">>)) = Slice(b, 0, Index(a, <<"<">>))
    /\ a # b

TemplatePair ==
    /\ AlignCompared
    /\ Len(eager) = 1
    /\ Len(compiled) = 1
    /\ SameUpToTemplate(eager[1].Name, compiled[1].Name)

OneSimilarMatch ==
    /\ getKernelSignature(eager[1].Name) = getKernelSignature(compiled[1].Name)
    /\ Len(comparison.Matches) = 1
    /\ comparison.Matches[1].MatchType = "similar"
    /\ comparison.Matches[1].EagerKernels = <<eager[1].Name>>
    /\ comparison.Matches[1].CompiledKernel = compiled[1].Name

\* C15 as stated: two names equal up to their first "<" and different
\* after it have equal signatures, and one-kernel lists of them give exactly
\* one similar match in align mode.
C15_TemplateVariantsSimilar == TemplatePair => OneSimilarMatch

\* C15: the same when the part before "<" normalises to at least three
\* characters, so that the signature is not the hash of the whole name.
C15_TemplateVariantsSimilarNonFallback ==
    TemplatePair /\ NonFallback(eager[1].Name) => OneSimilarMatch

C15_Witness ==
    /\ TemplatePair
    /\ eager[1].Name = GemmFloat
    /\ compiled[1].Name = GemmDouble
    /\ NonFallback(GemmFloat)
    /\ comparison.Matches[1].MatchType = "similar"

\* the spec's S2 stream: eight concatenations of [A,B,C,D, A,B,C,D, A,B,C,D]
IsS2 == \E sch \in 0..MaxDurScheme : events = Stream(WinS2, 8, 0, 0, sch)

Detected == pc \in {"extract", "done", "failed"}

\* C16 as stated: for the S2 stream the detector returns the descriptor with
\* cycle_length 4 and num_repetitions 24.
C16_S2InnerCycle ==
    IsS2 /\ Detected =>
        \E info \in Returned : info.CycleLength = 4 /\ info.NumCycles = 24

\* info is outer with its window split at np >= 3 regularly placed positions:
\* the cross product of outer's starts and the in-window positions
RefinedFrom(info, outer) ==
    LET no == Len(outer.CycleIndices)
        np == Len(info.CycleIndices) \div no
    IN  /\ outer.CycleLength > 20
        /\ np >= 3
        /\ Len(info.CycleIndices) = no * np
        /\ info.NumCycles = outer.NumCycles * np
        /\ info.CycleLength = info.CycleIndices[2] - info.CycleIndices[1]
        /\ info.CycleLength >= 5
        /\ 2 * info.CycleLength < outer.CycleLength
        /\ info.StartIndex = info.CycleIndices[1]
        /\ \A q \in 1..(no * np) :
              info.CycleIndices[q] - outer.CycleIndices[((q - 1) \div np) + 1]
                  = info.CycleIndices[((q - 1) % np) + 1] - outer.CycleIndices[1]

\* C16: for the S2 stream findAllCyclePatterns returns no pattern and
\* DetectCycleBySignature returns the outer descriptor, cycle_length 12 and
\* num_repetitions 8, unrefined; and every pattern findAllCyclePatterns
\* returns is its anchor's verified cycle or that cycle refined, with the
\* sub-cycle length as cycle_length and outer repetitions times in-window
\* positions as num_repetitions.
C16_S2OuterCycle ==
    /\ IsS2 /\ Detected =>
          /\ patterns[1] = {} /\ patterns[2] = {}
          /\ Returned = {CycleInfo(0, 12, 8, [r \in 1..8 |-> 12 * (r - 1)])}
    /\ \A r \in 1..2 :
          FindAllDone(r) =>
              \A p \in patterns[r] :
                  LET outer == CandidateCycle(events, p.Anchor)
                  IN  outer # Nil
                      /\ (p.Info = outer \/ RefinedFrom(p.Info, outer))

C16_Witness ==
    /\ IsS2
    /\ pc = "done"
    /\ cycleInfo.CycleLength = 12
    /\ cycleInfo.NumCycles = 8
    /\ result.CycleLength = 12

\* exactly 20 events: two repetitions of a 10-long sequence
IsTwoReps ==
    \E win \in {WinDistinct, WinTie} :
        \E sch \in 0..MaxDurScheme : events = Stream(win, 2, 0, 0, sch)

TwoRepsDescriptor == CycleInfo(0, 10, 2, <<0, 10>>)

\* C17 as stated: for 20 events that are two repetitions of a 10-long
\* sequence the detector, findAllCyclePatterns as well as
\* DetectCycleBySignature, returns a descriptor with cycle_length 10 and
\* num_repetitions 2.
C17_TwoRepsAccepted ==
    IsTwoReps /\ Detected =>
        \A r \in 1..2 :
            /\ detected[r].info = TwoRepsDescriptor
            /\ \E p \in patterns[r] :
                  p.Info.CycleLength = 10 /\ p.Info.NumCycles = 2

\* C17: for such events DetectCycleBySignature returns the descriptor with
\* start 0, cycle_length 10 and num_repetitions 2, and findAllCyclePatterns
\* returns no pattern.
C17_TwoRepsAcceptedBySignature ==
    IsTwoReps /\ Detected =>
        /\ Len(events) = 20
        /\ \A r \in 1..2 :
              /\ detected[r].info = TwoRepsDescriptor
              /\ patterns[r] = {}

C17_Witness ==
    /\ IsTwoReps
    /\ Len(events) = 20
    /\ pc = "done"
    /\ cycleInfo = TwoRepsDescriptor
    /\ detected[1].info = TwoRepsDescriptor
    /\ result.NumCycles = 2

\* the number of kernels of a list with a given name
NameCount(kernels, name) ==
    Cardinality({i \in 1..Len(kernels) : kernels[i].Name = name})

\* the new list holds the names of the baseline, each as often
IsPermutation ==
    /\ Len(eager) = Len(compiled)
    /\ \A name \in ComparedNames :
          NameCount(eager, name) = NameCount(compiled, name)

MatchCompared == Compared /\ CompareMode = "match"

\* C18: in match mode, when the new list is a permutation of the baseline,
\* the result has no removed and no new_only entry: one entry per new
\* kernel, each paired with a baseline kernel of its own, and every baseline
\* kernel paired.
C18_PermutationAllPaired ==
    MatchCompared /\ IsPermutation =>
        LET ms == comparison.Matches
        IN  /\ Len(ms) = Len(compiled)
            /\ \A k \in 1..Len(ms) :
                  /\ ms[k].MatchType \notin {"removed", "new_only"}
                  /\ ms[k].CompiledPos = k - 1
                  /\ ms[k].EagerPos >= 0
            /\ {ms[k].EagerPos : k \in 1..Len(ms)} = 0..(Len(eager) - 1)

\* a permutation that moves every kernel, with two names of one signature
C18_Witness ==
    /\ MatchCompared
    /\ IsPermutation
    /\ Len(eager) = 3
    /\ \A i \in 1..3 : eager[i].Name # compiled[i].Name
    /\ \E i, j \in 1..3 :
          /\ eager[i].Name # eager[j].Name
          /\ CompareSigTable[eager[i].Name] = CompareSigTable[eager[j].Name]
    /\ Len(comparison.Matches) = 3

\* baseline [x, y, z] and new [f, z], the signature of f being neither x's
\* nor y's
FusionLists ==
    /\ Compared
    /\ Len(eager) = 3
    /\ Len(compiled) = 2
    /\ compiled[2].Name = eager[3].Name
    /\ CompareSigTable[compiled[1].Name] # CompareSigTable[eager[1].Name]
    /\ CompareSigTable[compiled[1].Name] # CompareSigTable[eager[2].Name]

\* four entries: new_only for f, removed for x, removed for y, exact for z
FusionEntries ==
    LET ms == comparison.Matches
        OfType(t) == {k \in 1..Len(ms) : ms[k].MatchType = t}
    IN  /\ Len(ms) = 4
        /\ Cardinality(OfType("new_only")) = 1
        /\ Cardinality(OfType("removed")) = 2
        /\ Cardinality(OfType("exact")) = 1
        /\ \A k \in OfType("new_only") : ms[k].CompiledKernel = compiled[1].Name
        /\ \A k \in OfType("exact") :
              /\ ms[k].CompiledKernel = compiled[2].Name
              /\ ms[k].EagerKernels = <<eager[3].Name>>
        /\ \E k1, k2 \in OfType("removed") :
              /\ k1 # k2
              /\ ms[k1].EagerKernels = <<eager[1].Name>>
              /\ ms[k2].EagerKernels = <<eager[2].Name>>

Classified == phases # Nil

PatternSet == {plist[i] : i \in 1..Len(plist)}

\* the descriptors whose coverage is at least N/100 (the integer quotient),
\* or all of them when none qualifies
Eligible ==
    LET covering == {p \in PatternSet :
                        p.Info.NumCycles * p.Info.CycleLength
                            >= totalEvents \div 100}
    IN  IF covering = {} THEN PatternSet ELSE covering

NoCandidateSurvives ==
    \A c \in AnchorCandidates(events) : CandidateCycle(events, c.name) = Nil

SameWindow(a, b, len) ==
    /\ b + len <= Len(events)
    /\ \A i \in 1..len : events[a + i].Name = events[b + i].Name

TimedRows ==
    {k \in 1..Len(comparison.Matches) :
        comparison.Matches[k].EagerDur > 0 /\ comparison.Matches[k].CompiledDur > 0}

\* C22: for a match whose baseline and new averages are both positive the
\* change cell holds (new - baseline) / baseline * 100 and is styled
\* improved iff the change is below -5, regressed iff it is above +5 and
\* neutral otherwise; a change of exactly -5% or +5% is neutral, and for a
\* baseline of 100 a new average of 93 is improved, 106 regressed, 103 neutral.
C22_ChangeClassification ==
    sheet # Nil =>
        \A k \in TimedRows :
            LET base == comparison.Matches[k].EagerDur
                new  == comparison.Matches[k].CompiledDur
                cell == sheet.Rows[k].K
            IN  /\ cell.Value.num * base = (new - base) * 100 * cell.Value.den
                /\ cell.Value.den > 0
                /\ cell.Style \in {"improved", "regressed", "neutral"}
                /\ cell.Style = "improved" <=> 20 * (new - base) < - base
                /\ cell.Style = "regressed" <=> 20 * (new - base) > base
                /\ 20 * (new - base) \in {base, - base} => cell.Style = "neutral"
                /\ base = 100 /\ new = 93 => cell.Style = "improved"
                /\ base = 100 /\ new = 106 => cell.Style = "regressed"
                /\ base = 100 /\ new = 103 => cell.Style = "neutral"

C22_Witness ==
    /\ sheet # Nil
    /\ Len(sheet.Rows) = 3
    /\ \A k \in 1..3 : k \in TimedRows /\ comparison.Matches[k].EagerDur = 100
    /\ comparison.Matches[1].CompiledDur = 95 /\ sheet.Rows[1].K.Style = "neutral"
    /\ comparison.Matches[2].CompiledDur = 105 /\ sheet.Rows[2].K.Style = "neutral"


(***************************************************************************)
(* The trace reader.                                                       *)
(***************************************************************************)
Decodes(e) == e.form = "ok"

\* the elements that decode and are retained, in arrival order
RetainedEvents(elems) ==
    LET Keep(e) == Decodes(e) /\ e.cat = "kernel" /\ e.ph = "X"
        kept == SelectSeq(elems, Keep)
    IN  [k \in 1..Len(kept) |-> KernelEvent(kept[k])]

\* what is returned is the retained subsequence of the whole array
C23_ReturnedSubsequence ==
    tpc = "returned" => kernelEvents = RetainedEvents(traceElems)

\* C23: the events returned by the trace reader are exactly the elements of
\* the traceEvents array that decode and have cat = "kernel" and ph = "X",
\* in arrival order; an element that does not decode is skipped and every
\* element after it is still examined, so the reader gets through the array
\* and returns.
C23_TraceReader ==
    /\ [](tpc = "returned" => kernelEvents = RetainedEvents(traceElems))
    /\ [](tpc = "loop" => <>(tpc = "returned"))

\* the reader is at an element it read before and can neither pass it nor
\* leave the loop
ReaderStuck ==
    /\ tpc = "loop"
    /\ decErr
    /\ tpos < Len(traceElems)
    /\ \E k \in (tpos + 2)..Len(traceElems) :
          Decodes(traceElems[k]) /\ Retained(traceElems[k])


(***************************************************************************)
(* Batch pairing.                                                          *)
(***************************************************************************)
Similarity(i, j) == computeCycleSimilarity(baselineCycles[i], newCycles[j])

AtLeastThreshold(x) == 5 * x.num >= x.den

\* C24: each baseline cycle and each new cycle is in at most one pair; the
\* pairs are chosen in non-increasing order of similarity, each the most
\* similar of the combinations still unpaired; every chosen pair has
\* similarity >= 0.2; when pairing stops no unpaired combination has
\* similarity >= 0.2.
C24_SmartPairing ==
    spc = "matched" =>
        LET ch == smart.chosen
            usedB(k) == {ch[q].baseIdx : q \in 1..(k - 1)}
            usedN(k) == {ch[q].newIdx : q \in 1..(k - 1)}
            n == Len(ch)
        IN  /\ \A k, q \in 1..n :
                  k # q => ch[k].baseIdx # ch[q].baseIdx /\ ch[k].newIdx # ch[q].newIdx
            /\ \A k \in 1..n :
                  /\ ch[k].baseIdx \in 1..Len(baselineCycles)
                  /\ ch[k].newIdx \in 1..Len(newCycles)
                  /\ ch[k].sim = Similarity(ch[k].baseIdx, ch[k].newIdx)
                  /\ AtLeastThreshold(ch[k].sim)
                  /\ \A i \in 1..Len(baselineCycles), j \in 1..Len(newCycles) :
                        i \notin usedB(k) /\ j \notin usedN(k) =>
                            ~FracGreater(Similarity(i, j), ch[k].sim)
            /\ \A k \in 1..(n - 1) : ~FracGreater(ch[k + 1].sim, ch[k].sim)
            /\ \A i \in 1..Len(baselineCycles), j \in 1..Len(newCycles) :
                  i \notin usedB(n + 1) /\ j \notin usedN(n + 1) =>
                      ~AtLeastThreshold(Similarity(i, j))
            /\ {smart.matches[k] : k \in 1..Len(smart.matches)} = {ch[k] : k \in 1..n}
            /\ Len(smart.matches) = n

\* two pairs are chosen, the second of similarity exactly 0.2, and a
\* combination below the threshold is left unpaired
C24_Witness ==
    /\ spc = "matched"
    /\ Len(smart.chosen) = 2
    /\ FracGreater(smart.chosen[1].sim, smart.chosen[2].sim)
    /\ 5 * smart.chosen[2].sim.num = smart.chosen[2].sim.den
    /\ smart.chosen[1].baseIdx = 2


(***************************************************************************)
(* Align mode: pairs and the longest common subsequence.                   *)
(***************************************************************************)
Aligned == cpc = "compared" /\ CompareMode = "align"

\* the elements of s at the indices in S, in order
RECURSIVE Pick(_, _)
Pick(s, S) ==
    IF S = {} THEN <<>>
    ELSE LET i == CHOOSE x \in S : \A y \in S : x <= y
         IN  <<s[i]>> \o Pick(s, S \ {i})

Subsequences(s) == {Pick(s, S) : S \in SUBSET (1..Len(s))}

\* the length of a longest common subsequence, by enumeration
LongestCommon(a, b) ==
    LET common == Subsequences(a) \cap Subsequences(b)
    IN  CHOOSE k \in 0..Len(a) :
            /\ \E c \in common : Len(c) = k
            /\ \A c \in common : Len(c) <= k

\* rotate(s, r): element i (0-based) is s[(i + r) mod len]
Rotate(s, r) == [i \in 1..Len(s) |-> s[(((i - 1) + r) % Len(s)) + 1]]

Rotations == IF Len(eager) = Len(compiled) /\ Len(eager) > 0
             THEN 0..(Len(eager) - 1) ELSE {0}

RotatedLCS(r) == LongestCommon(Rotate(Signatures(eager), r), Signatures(compiled))

\* the smallest rotation of largest LCS
SmallestBestRotation ==
    CHOOSE r \in Rotations :
        /\ \A q \in Rotations : RotatedLCS(q) <= RotatedLCS(r)
        /\ \A q \in Rotations : RotatedLCS(q) = RotatedLCS(r) => r <= q

PairedCount ==
    Cardinality({k \in 1..Len(comparison.Matches) :
                    comparison.Matches[k].MatchType \in {"exact", "similar"}})

\* the original positions of the baseline kernels, in output order
BaselineOrder ==
    LET withBase == SelectSeq(comparison.Matches, LAMBDA x : x.EagerPos >= 0)
    IN  [k \in 1..Len(withBase) |-> withBase[k].EagerPos]

\* C25: in align mode the number of paired entries (exact plus similar) is
\* the LCS length of the aligned baseline signatures and the new signatures;
\* when m = n > 0 it is the largest LCS over the rotations r in [0, m) of the
\* baseline, and the baseline is rotated by the smallest such r.
C25_AlignPairsAreLCS ==
    Aligned =>
        /\ PairedCount = RotatedLCS(SmallestBestRotation)
        /\ \A r \in Rotations : RotatedLCS(r) <= PairedCount
        /\ BaselineOrder = Rotate([i \in 1..Len(eager) |-> i - 1], SmallestBestRotation)

C25_Witness ==
    /\ Aligned
    /\ Len(eager) = Len(compiled)
    /\ Len(eager) >= 3
    /\ SmallestBestRotation = 1
    /\ RotatedLCS(2) = RotatedLCS(1)
    /\ PairedCount > RotatedLCS(0)


(***************************************************************************)
(* Match mode: exact matches.                                              *)
(***************************************************************************)
ExactCount ==
    Cardinality({k \in 1..Len(comparison.Matches) :
                    comparison.Matches[k].MatchType = "exact"})

NamesCompared ==
    {eager[i].Name : i \in 1..Len(eager)} \cup {compiled[j].Name : j \in 1..Len(compiled)}

Occurrences(kernels, nm) == Cardinality({i \in 1..Len(kernels) : kernels[i].Name = nm})

RECURSIVE SumOfMin(_)
SumOfMin(S) ==
    IF S = {} THEN 0
    ELSE LET nm == CHOOSE x \in S : TRUE
         IN  min(Occurrences(eager, nm), Occurrences(compiled, nm)) + SumOfMin(S \ {nm})

\* a baseline kernel is the similar partner of a new kernel of another name
\* while a later new kernel of the baseline kernel's name is similar or new_only
ExactPartnerTaken ==
    \E k, q \in 1..Len(comparison.Matches) :
        /\ comparison.Matches[k].MatchType = "similar"
        /\ comparison.Matches[q].MatchType \in {"similar", "new_only"}
        /\ comparison.Matches[q].CompiledPos > comparison.Matches[k].CompiledPos
        /\ comparison.Matches[q].CompiledKernel = comparison.Matches[k].EagerKernels[1]

\* C26: in match mode the number of exact matches is the sum over kernel
\* names of min(baseline count, new count); a baseline kernel is never taken
\* as the similar partner of a new kernel of another name when that leaves a
\* later new kernel of its own name similar or new_only.
C26_ExactIsSumOfMin ==
    cpc = "compared" /\ CompareMode = "match" =>
        /\ ExactCount = SumOfMin(NamesCompared)
        /\ ~ExactPartnerTaken

\* the exact matches never exceed the sum of the minima
C26_ExactAtMostSumOfMin ==
    cpc = "compared" /\ CompareMode = "match" =>
        ExactCount <= SumOfMin(NamesCompared)


(***************************************************************************)
(* Align mode: the order of the output.                                    *)
(***************************************************************************)
IsPaired(x) == x.MatchType \in {"exact", "similar"}

\* the original positions of the new kernels, in output order
NewOrder ==
    LET withNew == SelectSeq(comparison.Matches, LAMBDA x : x.CompiledPos >= 0)
    IN  [k \in 1..Len(withNew) |-> withNew[k].CompiledPos]

\* entries k < q of one run of unpaired entries
SameRun(k, q) ==
    /\ k < q
    /\ \A p \in k..q : ~IsPaired(comparison.Matches[p])

\* the run of k and q lies between two paired entries
InnerRun(k, q) ==
    /\ SameRun(k, q)
    /\ \E p \in 1..(k - 1) : IsPaired(comparison.Matches[p])
    /\ \E p \in (q + 1)..Len(comparison.Matches) : IsPaired(comparison.Matches[p])

\* C27: the align-mode result is in execution order: the new kernels in
\* their original order, the baseline kernels in the order of the rotated
\* baseline, Index the position in the list; and in every run of unpaired
\* entries between two paired entries all removed entries come before all
\* new_only entries.
C27_AlignOrder ==
    Aligned =>
        /\ NewOrder = [j \in 1..Len(compiled) |-> j - 1]
        /\ \E r \in Rotations :
              BaselineOrder = Rotate([i \in 1..Len(eager) |-> i - 1], r)
        /\ \A k \in 1..Len(comparison.Matches) : comparison.Matches[k].Index = k - 1
        /\ \A k, q \in 1..Len(comparison.Matches) :
              SameRun(k, q) =>
                  ~(comparison.Matches[k].MatchType = "new_only"
                      /\ comparison.Matches[q].MatchType = "removed")

\* a run between two paired entries holds a removed and a new_only entry
C27_Witness ==
    /\ Aligned
    /\ \E k, q \in 1..Len(comparison.Matches) :
          /\ InnerRun(k, q)
          /\ comparison.Matches[k].MatchType = "removed"
          /\ comparison.Matches[q].MatchType = "new_only"


(***************************************************************************)
(* Conservation, in both modes.                                            *)
(***************************************************************************)
TypeCount(t) ==
    Cardinality({k \in 1..Len(comparison.Matches) :
                    comparison.Matches[k].MatchType = t})

\* the entries that hold the baseline kernel at position i
EntriesOfBaseline(i) ==
    {k \in 1..Len(comparison.Matches) : comparison.Matches[k].EagerPos = i}

\* the entries that hold the new kernel at position j
EntriesOfNew(j) ==
    {k \in 1..Len(comparison.Matches) : comparison.Matches[k].CompiledPos = j}

\* C28: in both modes every baseline kernel and every new kernel is in
\* exactly one KernelMatch: exact + similar + removed = m, exact + similar +
\* new_only = n, and total_time is the sum of the averages of all n new
\* kernels.
C28_Conservation ==
    cpc = "compared" =>
        /\ \A i \in 1..Len(eager) :
              /\ Cardinality(EntriesOfBaseline(i - 1)) = 1
              /\ \A k \in EntriesOfBaseline(i - 1) :
                    /\ comparison.Matches[k].EagerKernels = <<eager[i].Name>>
                    /\ comparison.Matches[k].EagerDur = eager[i].AvgDur
        /\ \A j \in 1..Len(compiled) :
              /\ Cardinality(EntriesOfNew(j - 1)) = 1
              /\ \A k \in EntriesOfNew(j - 1) :
                    /\ comparison.Matches[k].CompiledKernel = compiled[j].Name
                    /\ comparison.Matches[k].CompiledDur = compiled[j].AvgDur
        /\ \A k \in 1..Len(comparison.Matches) :
              /\ comparison.Matches[k].MatchType \in {"exact", "similar", "removed", "new_only"}
              /\ comparison.Matches[k].EagerPos >= 0 <=> comparison.Matches[k].MatchType # "new_only"
              /\ comparison.Matches[k].CompiledPos >= 0 <=> comparison.Matches[k].MatchType # "removed"
        /\ TypeCount("exact") + TypeCount("similar") + TypeCount("removed") = Len(eager)
        /\ TypeCount("exact") + TypeCount("similar") + TypeCount("new_only") = Len(compiled)
        /\ comparison.TotalTime = SumSeq([j \in 1..Len(compiled) |-> compiled[j].AvgDur])

C28_Witness ==
    /\ cpc = "compared"
    /\ CompareMode = "match"
    /\ TypeCount("similar") > 0
    /\ TypeCount("removed") > 0
    /\ TypeCount("new_only") > 0
    /\ Len(eager) = 3
    /\ comparison.TotalTime = SumSeq([j \in 1..Len(compiled) |-> compiled[j].AvgDur])


(***************************************************************************)
(* The signature: numbered suffixes and configuration markers.             *)
(***************************************************************************)
\* s ends in an underscore followed by one or more digits
EndsInUnderscoreDigits(s) ==
    \E k \in 1..(Len(s) - 1) :
        /\ s[Len(s) - k] = "_"
        /\ \A i \in (Len(s) - k + 1)..Len(s) : IsDigit(s[i])

\* C29: getKernelSignature removes a trailing underscore followed by one or
\* more digits, repeatedly: on the non-fallback path the signature never
\* ends in underscore+digits, and kkk_0, kkk_12 and kkk_3_45 all have the
\* signature kkk.
C29_NoTrailingNumber ==
    cpc = "compared" =>
        \A x \in ComparedNames :
            /\ NonFallback(x) => ~EndsInUnderscoreDigits(getKernelSignature(x))
            /\ x \in {NumOne, NumTwo, NumNested} =>
                  getKernelSignature(x) = <<"k", "k", "k">>

\* the markers the specification lists
Markers ==
    {<<"_","G","R","O","U","P","_","K","_">>,
     <<"_","G","R","O","U","P","_","N","_">>,
     <<"_","G","R","O","U","P","_","S","I","Z","E","_">>,
     <<"_","B","L","O","C","K","_","S","I","Z","E","_">>,
     <<"_","S","P","L","I","T","K","_","B","L","O","C","K","_","S","I","Z","E","_">>,
     <<"_","N","U","M","_","K","S","P","L","I","T","_">>,
     <<"_","A","C","T","U","A","L","_","K","S","P","L","I","T","_">>,
     <<"_","M","A","X","_","K","S","P","L","I","T","_">>,
     <<"_","G","R","I","D","_","M","N","_">>,
     <<"_","G","R","I","D","_">>,
     <<"_","E","V","E","N","_","K","_">>,
     <<"_","c","a","c","h","e","_","m","o","d","i","f","i","e","r","_">>,
     <<"_","M","T">>, <<"_","M","I">>, <<"_","S","N","_">>,
     <<"_","A","F","C">>, <<"_","L","D","S","B">>,
     <<"_","L","P","A">>, <<"_","L","P","B">>,
     <<"_","U","s","e","r","A","r","g","s","_">>,
     <<"_","s","h","o","r","t","n","a","m","e">>}

MarkerHits(s) == {i \in 0..Len(s) : \E mk \in Markers : HasPrefixAt(s, mk, i)}

\* s up to the earliest occurrence of any marker
CutAtEarliestMarker(s) ==
    Slice(s, 0, CHOOSE i \in MarkerHits(s) : \A j \in MarkerHits(s) : i <= j)

\* x and y hold a marker and are equal up to their earliest marker, and
\* what precedes it gives a signature of three characters or more
DifferFromMarkerOn(x, y) ==
    /\ MarkerHits(TruncateTemplate(x)) # {}
    /\ MarkerHits(TruncateTemplate(y)) # {}
    /\ CutAtEarliestMarker(TruncateTemplate(x)) = CutAtEarliestMarker(TruncateTemplate(y))
    /\ Len(TrimRightUnderscore(StripTrailingNumbers(
              CutAtEarliestMarker(TruncateTemplate(x))))) >= 3

\* C30: a name that holds configuration markers is cut at the earliest
\* occurrence of any marker, also when two markers overlap, so two names
\* that differ only from that marker on have equal signatures.
C30_ConfigMarkerCut ==
    cpc = "compared" =>
        \A x, y \in ComparedNames :
            DifferFromMarkerOn(x, y) =>
                getKernelSignature(x) = getKernelSignature(y)

\* for the markers the cut does find, without overlap
C30_TileVariantsEqual ==
    cpc = "compared" /\ ComparedNames = {TileA, TileB} =>
        \A x \in ComparedNames : getKernelSignature(x) = <<"k", "k", "k">>

====
